---- MODULE Spec2Model ----
(***************************************************************************)
(* Model of the ZeroBloatEmulator backend core:                            *)
(*   - QemuManager (backend/core/vm_manager.py): the process supervisor,   *)
(*     driven by the HTTP handlers of backend/app.py (api_core_start,      *)
(*     api_core_stop, api_health) and by the background thread that runs   *)
(*     reconnect_session once;                                             *)
(*   - SSHWorker.mount_target (backend/core/ssh_worker.py): the mount      *)
(*     selection, run against a guest whose configuration is drawn from    *)
(*     bounded sets;                                                       *)
(*   - the hotplug of a host disk image: api_core_mount, api_core_eject,   *)
(*     QemuManager.hotplug_drive, hotunplug_drive, send_monitor_command.   *)
(*                                                                         *)
(* Nine specifications share the variables:                                *)
(*   Spec      handler threads and the recovery thread interleave freely   *)
(*   SpecSeq   calls of QemuManager methods do not overlap (the contract   *)
(*             of one call at a time); the OS environment still moves      *)
(*   SpecLive  one request at a time, with weak fairness of every thread   *)
(*   SpecMount one run of mount_target per guest configuration             *)
(*   SpecSsh   calls of SSHWorker by two worker threads, next to one call  *)
(*             of check_health                                             *)
(*   SpecHot   requests to api_core_mount and api_core_eject, served one   *)
(*             after the other, with the guest and the monitor around them *)
(*   SpecMon   calls of send_monitor_command, read by read                 *)
(*   SpecDel   requests to api_delete served by two worker threads         *)
(*   SpecPair  requests to api_core_mount served by two worker threads,    *)
(*             in an environment where nothing fails                       *)
(***************************************************************************)
EXTENDS Integers, Sequences, FiniteSets, TLC

\* ---------------------------------------------------------------- bounds
\* Number of process ids the OS hands out in one run of the model.
MaxPid == 2
\* Number of SSH connections connect() may create in one run of the model.
MaxConn == 2

\* Number of rows the guest's partition enumeration prints.
MaxRows == 2
\* Number of commands execute_command sends in one run of the model.
MaxCmds == 2
\* Number of partitions on a hot-plugged image.
MaxParts == 2
\* Number of requests to /api/core/mount and /api/core/eject in one run.
MaxHotCalls == 2
\* Number of chunks without a prompt that one read phase of
\* send_monitor_command receives.
MaxChunks == 2
\* Number of calls of send_monitor_command in one run of the monitor model.
MaxMonCalls == 2
\* Number of entries in the "paths" list of one /api/delete request.
MaxTargets == 2

\* api_core_mount: for _ in range(6)
PollAttempts == 6

Pids == 1..MaxPid
ConnIds == 1..MaxConn
\* None of Python: the absent handle, the absent pid, the absent client.
None == 0

\* The Flask worker threads that serve requests, and the daemon thread
\* started in __main__ for reconnect_session.
Handlers == {"h1", "h2"}
RecThread == "rec"
Threads == Handlers \cup {RecThread}

VARIABLES
    pstate,           \* OS process table: pid -> "free" | "boot" | "up" | "dead"
    current_process,  \* QemuManager.current_process (pid of the Popen) or None
    attached_pid,     \* QemuManager._attached_pid or None
    client,           \* SSHWorker._client (connection id) or None
    conns,            \* SSH connections created by connect() and still open
    managed,          \* history: pids spawned by start_service or adopted
    pc,               \* position of every thread
    ret,              \* handler: where stop_service returns to
    proc,             \* stop_service: psutil.Process captured in the attached branch
    isrun,            \* api_health: the value read from is_running
    res,              \* what the handler's last call ended with
    rc_pid,           \* reconnect_session: pid found by find_existing_process
    rc_health,        \* reconnect_session: result of check_health ("none" before)
    rc_conn,          \* reconnect_session: outcome of connect ("none" before)
    rc_term,          \* reconnect_session: it asked the found process to terminate
    rc_result,        \* reconnect_session: returned value ("none" while running)
    \* ---- mount_target and its guest
    emulator_type,    \* SSHWorker.emulator_type
    is_android_mounted,
    g_vdb2,           \* guest: /dev/vdb2 exists
    g_echo,           \* guest: lsblk prints the device name on stdout
    g_rows,           \* guest: rows printed by the partition enumeration
    g_mnt,            \* guest: device mounted at cfg.MOUNT_POINT, or NoDev
    g_marker,         \* guest: marker directory under the mount point, if any
    mpc,              \* position of mount_target
    probe_check,      \* mount_target local: output of the vdb2 probe
    raw,              \* mount_target local: what the enumeration gave
    candidate_device, \* mount_target local
    candidates,       \* mount_target local
    idx,              \* mount_target: index of the next candidate in the loop
    tried,            \* devices a mount command was issued for, in order
    cmds,             \* kinds of guest commands issued, in order
    mresult,          \* value returned / error raised by mount_target
    \* ---- check_health
    probe,            \* check_health local: "none" | "created" | "open" | "closed"
    hc_path,          \* check_health: the path the call took ("none" before)
    \* ---- api_core_mount / api_core_eject (hotplug) and the guest's disks
    host_file,        \* host: os.path.exists(host_path)
    guest_disks,      \* guest: names lsblk lists with TYPE disk
    hot_mounts,       \* guest: partitions mounted under base_mount
    q_drive,          \* QEMU: the named drive exists (drive_add took effect)
    q_device,         \* QEMU: the scsi-hd device exists (device_add took effect)
    monitor_log,      \* send_monitor_command calls of the current request:
                      \* command and how the call ended
    guest_log,        \* execute_command calls of the current request, likewise
    before,           \* api_core_mount local: disks before the hotplug
    polls,            \* api_core_mount: turns of the polling loop done
    new_disk_name,    \* api_core_mount local ("" for None)
    partitions,       \* api_core_mount local
    mounts,           \* api_core_mount local
    mount_response,   \* last response of api_core_mount
    eject_response,   \* last response of api_core_eject
    hot_calls,        \* requests to the two handlers so far
    \* ---- send_monitor_command, step by step
    mon_pc,           \* position of send_monitor_command
    mon_cmd,          \* its argument cmd
    resp,             \* its local resp: the chunks read in this phase
    greeting,         \* what the first phase had read when it ended
    mon_sent,         \* sendall(cmd + "\n") was done
    mon_result,       \* "none" while running, then "ok" or the error raised
    mon_value,        \* the value returned
    mon_calls,        \* calls of send_monitor_command so far
    \* ---- api_delete, served by the worker threads
    paths,            \* api_delete local, per thread: the "paths" of the body
    del_i,            \* api_delete: position of the for loop (0: not entered)
    results,          \* api_delete local: path -> what rm printed or "deleted"
    errors,           \* api_delete local: path -> the exception of its rm
    remounted_ro,     \* history: the call's last remount,ro reached the guest
    guest_rw,         \* guest: /mnt/android is mounted read-write
    \* ---- api_core_mount, served by the worker threads at the same time
    host_path,        \* api_core_mount local, per thread ("" before the call)
    c_before,         \* api_core_mount local before, per thread
    c_polls,          \* turns of the polling loop done, per thread
    c_new_disk_name,  \* api_core_mount local new_disk_name, per thread
    drives,           \* QEMU: ids of the drives that exist
    device_by,        \* QEMU: device id -> the thread whose device_add made it
    backing           \* guest: disk name -> id of the drive behind it

supVars == <<pstate, current_process, attached_pid, client, conns,
             managed, pc, ret, proc, isrun, res,
             rc_pid, rc_health, rc_conn, rc_term, rc_result>>
mntVars == <<emulator_type, is_android_mounted, g_vdb2, g_echo, g_rows, g_mnt,
             g_marker, mpc, probe_check, raw, candidate_device, candidates,
             idx, tried, cmds, mresult>>
sshVars == <<probe, hc_path>>
hotVars == <<host_file, guest_disks, hot_mounts, q_drive,
             q_device, monitor_log, guest_log, before, polls, new_disk_name,
             partitions, mounts, mount_response, eject_response, hot_calls>>
monVars == <<mon_pc, mon_cmd, resp, greeting, mon_sent, mon_result, mon_value,
             mon_calls>>
delVars == <<paths, del_i, results, errors, remounted_ro, guest_rw>>
pairVars == <<host_path, c_before, c_polls, c_new_disk_name, drives,
              device_by, backing>>
conVars == <<delVars, pairVars>>
extVars == <<hotVars, monVars, conVars>>
vars == <<supVars, mntVars, sshVars, extVars>>

\* ------------------------------------------------------- the OS environment
Alive(p) == p # None /\ pstate[p] \in {"boot", "up"}

\* psutil.pid_exists: the pid is in the OS process table.
pid_exists(p) == Alive(p)

\* A VM of this application is bound to the forwarded port cfg.SSH_PORT.
PortBound == \E p \in Pids : pstate[p] = "up"

\* A guest sshd can only answer on cfg.SSH_PORT when a VM holds the port.
GuestReachable == \E p \in Pids : pstate[p] = "up"

FreePids == {p \in Pids : pstate[p] = "free"}
\* The OS hands out the lowest unused pid.
FreshPid == CHOOSE p \in FreePids : \A q \in FreePids : p <= q

\* ------------------------------------------------------------ QemuManager
\* Mutation of is_running: the adopted pid is not looked at.
is_running_owned_only ==
    current_process # None /\ Alive(current_process)

\* QemuManager.is_running: the value the property returns.
is_running ==
    IF current_process # None
    THEN Alive(current_process)                \* poll() is None
    ELSE IF attached_pid # None
         THEN pid_exists(attached_pid)
         ELSE FALSE

\* QemuManager.is_running: _attached_pid after the read (lazy cleanup of a
\* dead adopted pid, reached only when current_process is None).
is_running_cleanup ==
    IF current_process = None /\ attached_pid # None /\ ~pid_exists(attached_pid)
    THEN None
    ELSE attached_pid

\* Mutation of is_port_in_use: a port held by a VM is not noticed.
is_port_in_use_foreign_only(foreign) == foreign

\* QemuManager.is_port_in_use(cfg.SSH_PORT): the bind fails, because a VM
\* holds the port or because another application does (foreign).
is_port_in_use(foreign) == PortBound \/ foreign

\* QemuManager.find_existing_process: psutil.process_iter walks the table in
\* pid order and the first qemu process carrying the hostfwd argument is
\* returned; every VM this program ever spawned carries it.
find_existing_process ==
    LET live == {p \in Pids : Alive(p)}
    IN  IF live = {} THEN None
        ELSE CHOOSE p \in live : \A q \in live : p <= q

\* ---------------------------------------------------------- thread control
\* Positions inside a QemuManager method, after its first statement.
MethodPcs == {"st_pre", "st_spawn",
              "sp_oterm", "sp_owait", "sp_okill", "sp_owait2", "sp_ofin",
              "sp_aterm", "sp_await", "sp_akill", "sp_await2", "sp_afin",
              "rc_probe", "rc_connect", "rc_attach", "rc_term", "rc_wait",
              "rc_kill"}
InMethod(t) == pc[t] \in MethodPcs

\* The scheduling of a specification, ser:
\*   "free"   threads interleave without restriction;
\*   "calls"  a thread moves only while no other thread is inside a
\*            QemuManager method (calls do not overlap), and the power
\*            requests (start, stop) are served one at a time while health
\*            polls are served at any time;
\*   "one"    as "calls", and every request is served alone.
MayStep(t, ser) == (ser # "free") => \A u \in Threads \ {t} : ~InMethod(u)

Kill(p) == [pstate EXCEPT ![p] = "dead"]

unchangedRec == UNCHANGED <<rc_pid, rc_health, rc_conn, rc_term, rc_result>>
unchangedOS == UNCHANGED pstate
unchangedSsh == UNCHANGED <<client, conns>>
unchangedQemu == UNCHANGED <<current_process, attached_pid, managed>>
unchangedLocals == UNCHANGED <<ret, proc, isrun, res>>

\* --------------------------------------------------------------- handlers
\* A request arrives at an idle worker thread.
request(t, ser) ==
    /\ t \in Handlers /\ pc[t] = "idle" /\ MayStep(t, ser)
    /\ \E op \in {"hl_read", "cs_check", "cp_check"} :
          /\ (ser = "calls" /\ op # "hl_read") =>
                 \A u \in Handlers : pc[u] \in {"idle", "hl_read", "hl_ret"}
          /\ (ser = "one") => \A u \in Handlers : pc[u] = "idle"
          /\ pc' = [pc EXCEPT ![t] = op]
    /\ unchangedOS /\ unchangedSsh /\ unchangedQemu /\ unchangedLocals
    /\ unchangedRec /\ UNCHANGED <<mntVars, sshVars, extVars>>

\* api_health: is_running = bool(qemu.is_running)
api_health(t, ser) ==
    /\ pc[t] = "hl_read" /\ MayStep(t, ser)
    /\ isrun' = [isrun EXCEPT ![t] = is_running]
    /\ attached_pid' = is_running_cleanup
    /\ pc' = [pc EXCEPT ![t] = "hl_ret"]
    /\ UNCHANGED <<current_process, managed, ret, proc, res>>
    /\ unchangedOS /\ unchangedSsh /\ unchangedRec /\ UNCHANGED <<mntVars, sshVars, extVars>>

\* The handler builds its response and the worker thread becomes idle.
handler_return(t, ser) ==
    /\ pc[t] \in {"hl_ret", "cs_ret", "cp_ret"} /\ MayStep(t, ser)
    /\ pc' = [pc EXCEPT ![t] = "idle"]
    /\ isrun' = [isrun EXCEPT ![t] = FALSE]
    /\ res' = [res EXCEPT ![t] = "none"]
    /\ UNCHANGED <<ret, proc>>
    /\ unchangedOS /\ unchangedSsh /\ unchangedQemu /\ unchangedRec
    /\ UNCHANGED <<mntVars, sshVars, extVars>>

\* SSHWorker.close
close_client == None
close_conns == conns \ {client}

\* api_core_start: if qemu.is_running:
api_core_start_check(t, ser) ==
    /\ pc[t] = "cs_check" /\ MayStep(t, ser)
    /\ attached_pid' = is_running_cleanup
    /\ pc' = [pc EXCEPT ![t] = IF is_running THEN "cs_close" ELSE "st_check"]
    /\ UNCHANGED <<current_process, managed, ret, proc, isrun, res>>
    /\ unchangedOS /\ unchangedSsh /\ unchangedRec /\ UNCHANGED <<mntVars, sshVars, extVars>>

\* api_core_start: ssh.close(), then the call of qemu.stop_service()
api_core_start_close(t, ser) ==
    /\ pc[t] = "cs_close" /\ MayStep(t, ser)
    /\ client' = close_client
    /\ conns' = close_conns
    /\ pc' = [pc EXCEPT ![t] = "sp_check"]
    /\ ret' = [ret EXCEPT ![t] = "st_check"]
    /\ UNCHANGED <<proc, isrun, res>>
    /\ unchangedOS /\ unchangedQemu /\ unchangedRec /\ UNCHANGED <<mntVars, sshVars, extVars>>

\* SSHWorker.wait_for_connection: its first statement reads time.monotonic(),
\* and the module never imports time (nor socket): the call raises NameError
\* before it polls anything.  The value is the exception the caller sees.
wait_for_connection == "NameError"

\* api_core_start: ssh.wait_for_connection(timeout=60) raised; the handler's
\* except branch calls qemu.stop_service() and returns an error.
api_core_start_wait(t, ser) ==
    /\ pc[t] = "cs_wait" /\ MayStep(t, ser)
    /\ wait_for_connection = "NameError"
    /\ pc' = [pc EXCEPT ![t] = "sp_check"]
    /\ ret' = [ret EXCEPT ![t] = "cs_ret"]
    /\ res' = [res EXCEPT ![t] = "SshError"]
    /\ UNCHANGED <<proc, isrun>>
    /\ unchangedOS /\ unchangedSsh /\ unchangedQemu /\ unchangedRec
    /\ UNCHANGED <<mntVars, sshVars, extVars>>

\* api_core_stop: if not qemu.is_running: return
api_core_stop_check(t, ser) ==
    /\ pc[t] = "cp_check" /\ MayStep(t, ser)
    /\ attached_pid' = is_running_cleanup
    /\ pc' = [pc EXCEPT ![t] = IF is_running THEN "cp_close" ELSE "cp_ret"]
    /\ UNCHANGED <<current_process, managed, ret, proc, isrun, res>>
    /\ unchangedOS /\ unchangedSsh /\ unchangedRec /\ UNCHANGED <<mntVars, sshVars, extVars>>

\* Device names of the guest; NoDev: nothing is mounted.
NoDev == "none"

\* api_core_stop: the best-effort umount of /mnt/android (execute_command
\* raises without a client, and the handler ignores it), ssh.close(), then
\* the call of qemu.stop_service()
api_core_stop_close(t, ser) ==
    /\ pc[t] = "cp_close" /\ MayStep(t, ser)
    /\ g_mnt' = IF client # None THEN NoDev ELSE g_mnt
    /\ client' = close_client
    /\ conns' = close_conns
    /\ pc' = [pc EXCEPT ![t] = "sp_check"]
    /\ ret' = [ret EXCEPT ![t] = "cp_ret"]
    /\ UNCHANGED <<proc, isrun, res>>
    /\ unchangedOS /\ unchangedQemu /\ unchangedRec
    /\ UNCHANGED <<emulator_type, is_android_mounted, g_vdb2, g_echo, g_rows,
                   g_marker, mpc, probe_check, raw, candidate_device,
                   candidates, idx, tried, cmds, mresult>>
    /\ UNCHANGED <<sshVars, extVars>>

\* ----------------------------------------------- QemuManager.start_service
\* if self.is_running: raise RuntimeError (AlreadyRunning)
start_service_check(t, ser) ==
    /\ pc[t] = "st_check" /\ MayStep(t, ser)
    /\ attached_pid' = is_running_cleanup
    /\ IF is_running
       THEN /\ res' = [res EXCEPT ![t] = "AlreadyRunning"]
            /\ pc' = [pc EXCEPT ![t] = "cs_ret"]
       ELSE /\ res' = [res EXCEPT ![t] = "none"]
            /\ pc' = [pc EXCEPT ![t] = "st_pre"]
    /\ UNCHANGED <<current_process, managed, ret, proc, isrun>>
    /\ unchangedOS /\ unchangedSsh /\ unchangedRec /\ UNCHANGED <<mntVars, sshVars, extVars>>

\* The port check, then the two os.path.isfile checks; what is on disk is an
\* input of the call.
start_service_pre(t, ser) ==
    /\ pc[t] = "st_pre" /\ MayStep(t, ser)
    /\ \E foreign \in BOOLEAN, exe_ok \in BOOLEAN, img_ok \in BOOLEAN :
          IF is_port_in_use(foreign)
          THEN /\ res' = [res EXCEPT ![t] = "PortConflict"]
               /\ pc' = [pc EXCEPT ![t] = "cs_ret"]
          ELSE IF ~exe_ok \/ ~img_ok
          THEN /\ res' = [res EXCEPT ![t] = "MissingAsset"]
               /\ pc' = [pc EXCEPT ![t] = "cs_ret"]
          ELSE /\ res' = res
               /\ pc' = [pc EXCEPT ![t] = "st_spawn"]
    /\ UNCHANGED <<ret, proc, isrun>>
    /\ unchangedOS /\ unchangedSsh /\ unchangedQemu /\ unchangedRec
    /\ UNCHANGED <<mntVars, sshVars, extVars>>

\* self.current_process = subprocess.Popen(cmd, ...); return its pid.
\* Popen raises OSError when the OS has no process to give.
start_service_spawn(t, ser) ==
    /\ pc[t] = "st_spawn" /\ MayStep(t, ser)
    /\ IF FreePids = {}
       THEN /\ res' = [res EXCEPT ![t] = "SpawnFailed"]
            /\ pc' = [pc EXCEPT ![t] = "cs_ret"]
            /\ UNCHANGED <<pstate, current_process, managed>>
       ELSE /\ pstate' = [pstate EXCEPT ![FreshPid] = "boot"]
            /\ current_process' = FreshPid
            /\ managed' = managed \cup {FreshPid}
            /\ res' = res
            /\ pc' = [pc EXCEPT ![t] = "cs_wait"]
    /\ UNCHANGED <<attached_pid, ret, proc, isrun>>
    /\ unchangedSsh /\ unchangedRec /\ UNCHANGED <<mntVars, sshVars, extVars>>

\* ------------------------------------------------ QemuManager.stop_service
\* Outcomes of terminate(): the process exits at once, it keeps running, or
\* the call raises (AccessDenied, PermissionError).
TermOutcomes == {"exit", "stay", "error"}
KillOutcomes == {"ok", "error"}

\* if not self.is_running: clear both fields and return; otherwise choose the
\* branch (owned handle first, then adopted pid; psutil.Process(pid) is taken
\* in the same step).
stop_service_check(t, ser) ==
    /\ pc[t] = "sp_check" /\ MayStep(t, ser)
    /\ isrun' = isrun
    /\ IF ~is_running
       THEN /\ current_process' = None
            /\ attached_pid' = None
            /\ res' = [res EXCEPT ![t] = "stopped"]
            /\ pc' = [pc EXCEPT ![t] = ret[t]]
            /\ proc' = proc
       ELSE IF current_process # None
       THEN /\ pc' = [pc EXCEPT ![t] = "sp_oterm"]
            /\ UNCHANGED <<current_process, attached_pid, res, proc>>
       ELSE /\ pc' = [pc EXCEPT ![t] = "sp_aterm"]
            /\ proc' = [proc EXCEPT ![t] = attached_pid]
            /\ UNCHANGED <<current_process, attached_pid, res>>
    /\ UNCHANGED <<managed, ret>>
    /\ unchangedOS /\ unchangedSsh /\ unchangedRec /\ UNCHANGED <<mntVars, sshVars, extVars>>

\* Case 1: self.current_process.terminate()
stop_service_oterm(t, ser) ==
    /\ pc[t] = "sp_oterm" /\ MayStep(t, ser)
    /\ IF current_process = None
       THEN /\ pc' = [pc EXCEPT ![t] = "sp_ofin"]     \* AttributeError
            /\ pstate' = pstate
       ELSE \E o \in TermOutcomes :
            /\ pstate' = IF o = "exit" THEN Kill(current_process) ELSE pstate
            /\ pc' = [pc EXCEPT ![t] = IF o = "error" THEN "sp_ofin"
                                       ELSE "sp_owait"]
    /\ unchangedSsh /\ unchangedQemu /\ unchangedLocals /\ unchangedRec
    /\ UNCHANGED <<mntVars, sshVars, extVars>>

\* self.current_process.wait(timeout=2): returns when the process is gone,
\* raises TimeoutExpired when it is still there.
stop_service_owait(t, ser) ==
    /\ pc[t] = "sp_owait" /\ MayStep(t, ser)
    /\ pc' = [pc EXCEPT ![t] = IF Alive(current_process) THEN "sp_okill"
                                ELSE "sp_ofin"]
    /\ unchangedOS /\ unchangedSsh /\ unchangedQemu /\ unchangedLocals
    /\ unchangedRec /\ UNCHANGED <<mntVars, sshVars, extVars>>

\* Mutation of kill_effect: the kill does not end the process.
kill_effect_none(p) == pstate

\* The effect of kill() on the process table.
kill_effect(p) == Kill(p)

\* self.current_process.kill()
stop_service_okill(t, ser) ==
    /\ pc[t] = "sp_okill" /\ MayStep(t, ser)
    /\ IF current_process = None
       THEN /\ pc' = [pc EXCEPT ![t] = "sp_ofin"]     \* AttributeError
            /\ pstate' = pstate
       ELSE \E o \in KillOutcomes :
            /\ pstate' = IF o = "ok" THEN kill_effect(current_process)
                         ELSE pstate
            /\ pc' = [pc EXCEPT ![t] = IF o = "ok" THEN "sp_owait2"
                                       ELSE "sp_ofin"]
    /\ unchangedSsh /\ unchangedQemu /\ unchangedLocals /\ unchangedRec
    /\ UNCHANGED <<mntVars, sshVars, extVars>>

\* self.current_process.wait() without a timeout: blocks while the process
\* lives; then self.current_process = None.
stop_service_owait2(t, ser) ==
    /\ pc[t] = "sp_owait2" /\ MayStep(t, ser)
    /\ ~Alive(current_process)
    /\ current_process' = None
    /\ pc' = [pc EXCEPT ![t] = "sp_ofin"]
    /\ UNCHANGED <<attached_pid, managed>>
    /\ unchangedOS /\ unchangedSsh /\ unchangedLocals /\ unchangedRec
    /\ UNCHANGED <<mntVars, sshVars, extVars>>

\* finally: self.current_process = None; the method returns.
stop_service_ofin(t, ser) ==
    /\ pc[t] = "sp_ofin" /\ MayStep(t, ser)
    /\ current_process' = None
    /\ res' = [res EXCEPT ![t] = "stopped"]
    /\ pc' = [pc EXCEPT ![t] = ret[t]]
    /\ UNCHANGED <<attached_pid, managed, ret, proc, isrun>>
    /\ unchangedOS /\ unchangedSsh /\ unchangedRec /\ UNCHANGED <<mntVars, sshVars, extVars>>

\* Case 2: proc.terminate() on the adopted process
stop_service_aterm(t, ser) ==
    /\ pc[t] = "sp_aterm" /\ MayStep(t, ser)
    /\ IF ~pid_exists(proc[t])
       THEN /\ pc' = [pc EXCEPT ![t] = "sp_afin"]     \* NoSuchProcess
            /\ pstate' = pstate
       ELSE \E o \in TermOutcomes :
            /\ pstate' = IF o = "exit" THEN Kill(proc[t]) ELSE pstate
            /\ pc' = [pc EXCEPT ![t] = IF o = "error" THEN "sp_afin"
                                       ELSE "sp_await"]
    /\ unchangedSsh /\ unchangedQemu /\ unchangedLocals /\ unchangedRec
    /\ UNCHANGED <<mntVars, sshVars, extVars>>

\* proc.wait(timeout=2)
stop_service_await(t, ser) ==
    /\ pc[t] = "sp_await" /\ MayStep(t, ser)
    /\ pc' = [pc EXCEPT ![t] = IF Alive(proc[t]) THEN "sp_akill" ELSE "sp_afin"]
    /\ unchangedOS /\ unchangedSsh /\ unchangedQemu /\ unchangedLocals
    /\ unchangedRec /\ UNCHANGED <<mntVars, sshVars, extVars>>

\* proc.kill()
stop_service_akill(t, ser) ==
    /\ pc[t] = "sp_akill" /\ MayStep(t, ser)
    /\ IF ~pid_exists(proc[t])
       THEN /\ pc' = [pc EXCEPT ![t] = "sp_afin"]     \* NoSuchProcess
            /\ pstate' = pstate
       ELSE \E o \in KillOutcomes :
            /\ pstate' = IF o = "ok" THEN kill_effect(proc[t]) ELSE pstate
            /\ pc' = [pc EXCEPT ![t] = IF o = "ok" THEN "sp_await2"
                                       ELSE "sp_afin"]
    /\ unchangedSsh /\ unchangedQemu /\ unchangedLocals /\ unchangedRec
    /\ UNCHANGED <<mntVars, sshVars, extVars>>

\* proc.wait() without a timeout
stop_service_await2(t, ser) ==
    /\ pc[t] = "sp_await2" /\ MayStep(t, ser)
    /\ ~Alive(proc[t])
    /\ pc' = [pc EXCEPT ![t] = "sp_afin"]
    /\ unchangedOS /\ unchangedSsh /\ unchangedQemu /\ unchangedLocals
    /\ unchangedRec /\ UNCHANGED <<mntVars, sshVars, extVars>>

\* finally: self._attached_pid = None; the method returns.
stop_service_afin(t, ser) ==
    /\ pc[t] = "sp_afin" /\ MayStep(t, ser)
    /\ attached_pid' = None
    /\ res' = [res EXCEPT ![t] = "stopped"]
    /\ pc' = [pc EXCEPT ![t] = ret[t]]
    /\ proc' = [proc EXCEPT ![t] = None]
    /\ UNCHANGED <<current_process, managed, ret, isrun>>
    /\ unchangedOS /\ unchangedSsh /\ unchangedRec /\ UNCHANGED <<mntVars, sshVars, extVars>>

\* -------------------------------------------- QemuManager.reconnect_session
\* pid = self.find_existing_process(); if not pid: return False
reconnect_session_find(t, ser) ==
    /\ t = RecThread /\ pc[t] = "rc_start" /\ MayStep(t, ser)
    /\ rc_pid' = find_existing_process
    /\ IF find_existing_process = None
       THEN /\ rc_result' = "false"
            /\ pc' = [pc EXCEPT ![t] = "rc_done"]
       ELSE /\ rc_result' = rc_result
            /\ pc' = [pc EXCEPT ![t] = "rc_probe"]
    /\ UNCHANGED <<rc_health, rc_conn, rc_term>>
    /\ unchangedOS /\ unchangedSsh /\ unchangedQemu /\ unchangedLocals
    /\ UNCHANGED <<mntVars, sshVars, extVars>>

\* if ssh_worker.check_health(): the probe opens and closes a connection of
\* its own; it answers True only when a guest answers on the forwarded port.
reconnect_session_probe(t, ser) ==
    /\ pc[t] = "rc_probe" /\ MayStep(t, ser)
    /\ \E healthy \in BOOLEAN :
          /\ healthy => GuestReachable
          /\ rc_health' = IF healthy THEN "true" ELSE "false"
          /\ pc' = [pc EXCEPT ![t] = IF healthy THEN "rc_connect" ELSE "rc_term"]
    /\ UNCHANGED <<rc_pid, rc_conn, rc_term, rc_result>>
    /\ unchangedOS /\ unchangedSsh /\ unchangedQemu /\ unchangedLocals
    /\ UNCHANGED <<mntVars, sshVars, extVars>>

FreeConns == ConnIds \ conns
\* SSHWorker.connect creates a new paramiko client.
NewConn == CHOOSE c \in FreeConns : \A d \in FreeConns : c <= d

\* ssh_worker.connect(): on success self._client = client (the previous
\* client, if any, is not closed); any exception leads to the kill path.
reconnect_session_connect(t, ser) ==
    /\ pc[t] = "rc_connect" /\ MayStep(t, ser)
    /\ \E ok \in BOOLEAN :
          /\ ok => (GuestReachable /\ FreeConns # {})
          /\ IF ok
             THEN /\ client' = NewConn
                  /\ conns' = conns \cup {NewConn}
                  /\ rc_conn' = "ok"
                  /\ pc' = [pc EXCEPT ![t] = "rc_attach"]
             ELSE /\ UNCHANGED <<client, conns>>
                  /\ rc_conn' = "failed"
                  /\ pc' = [pc EXCEPT ![t] = "rc_term"]
    /\ UNCHANGED <<rc_pid, rc_health, rc_term, rc_result>>
    /\ unchangedOS /\ unchangedQemu /\ unchangedLocals /\ UNCHANGED <<mntVars, sshVars, extVars>>

\* Mutation of attach: the pid is not stored.
attach_not_stored(pid) == attached_pid

\* QemuManager.attach(pid): the adopted pid after the call.
attach(pid) == pid

\* self.attach(pid); return True
reconnect_session_attach(t, ser) ==
    /\ pc[t] = "rc_attach" /\ MayStep(t, ser)
    /\ attached_pid' = attach(rc_pid)
    /\ managed' = managed \cup {rc_pid}
    /\ rc_result' = "true"
    /\ pc' = [pc EXCEPT ![t] = "rc_done"]
    /\ UNCHANGED <<current_process, rc_pid, rc_health, rc_conn, rc_term>>
    /\ unchangedOS /\ unchangedSsh /\ unchangedLocals /\ UNCHANGED <<mntVars, sshVars, extVars>>

\* proc = psutil.Process(pid); proc.terminate()
\* NoSuchProcess is passed over, any other exception is logged; both return
\* False.
reconnect_session_term(t, ser) ==
    /\ pc[t] = "rc_term" /\ MayStep(t, ser)
    /\ IF ~pid_exists(rc_pid)
       THEN /\ rc_term' = "gone"
            /\ rc_result' = "false"
            /\ pc' = [pc EXCEPT ![t] = "rc_done"]
            /\ pstate' = pstate
       ELSE \E o \in TermOutcomes :
            /\ pstate' = IF o = "exit" THEN Kill(rc_pid) ELSE pstate
            /\ rc_term' = IF o = "error" THEN "error" ELSE "sent"
            /\ rc_result' = IF o = "error" THEN "false" ELSE rc_result
            /\ pc' = [pc EXCEPT ![t] = IF o = "error" THEN "rc_done"
                                       ELSE "rc_wait"]
    /\ UNCHANGED <<rc_pid, rc_health, rc_conn>>
    /\ unchangedSsh /\ unchangedQemu /\ unchangedLocals /\ UNCHANGED <<mntVars, sshVars, extVars>>

\* proc.wait(timeout=3)
reconnect_session_wait(t, ser) ==
    /\ pc[t] = "rc_wait" /\ MayStep(t, ser)
    /\ IF Alive(rc_pid)
       THEN /\ pc' = [pc EXCEPT ![t] = "rc_kill"]
            /\ rc_result' = rc_result
       ELSE /\ pc' = [pc EXCEPT ![t] = "rc_done"]
            /\ rc_result' = "false"
    /\ UNCHANGED <<rc_pid, rc_health, rc_conn, rc_term>>
    /\ unchangedOS /\ unchangedSsh /\ unchangedQemu /\ unchangedLocals
    /\ UNCHANGED <<mntVars, sshVars, extVars>>

\* except psutil.TimeoutExpired: proc.kill(); return False
reconnect_session_kill(t, ser) ==
    /\ pc[t] = "rc_kill" /\ MayStep(t, ser)
    /\ IF ~pid_exists(rc_pid)
       THEN /\ pstate' = pstate                      \* NoSuchProcess
            /\ rc_term' = rc_term
       ELSE \E o \in KillOutcomes :
            /\ pstate' = IF o = "ok" THEN kill_effect(rc_pid) ELSE pstate
            /\ rc_term' = IF o = "ok" THEN "killed" ELSE "error"
    /\ rc_result' = "false"
    /\ pc' = [pc EXCEPT ![t] = "rc_done"]
    /\ UNCHANGED <<rc_pid, rc_health, rc_conn>>
    /\ unchangedSsh /\ unchangedQemu /\ unchangedLocals /\ UNCHANGED <<mntVars, sshVars, extVars>>

\* The daemon thread ends; its locals are gone.
reconnect_session_exit(t, ser) ==
    /\ pc[t] = "rc_done" /\ MayStep(t, ser)
    /\ pc' = [pc EXCEPT ![t] = "rc_exit"]
    /\ rc_pid' = None
    /\ rc_health' = "none"
    /\ rc_conn' = "none"
    /\ rc_term' = "none"
    /\ rc_result' = "none"
    /\ unchangedOS /\ unchangedSsh /\ unchangedQemu /\ unchangedLocals
    /\ UNCHANGED <<mntVars, sshVars, extVars>>

\* ------------------------------------------------------ the OS environment
\* A freshly spawned QEMU sets up its hostfwd rule: it takes the port, or
\* exits when the port is taken (by another VM, or by another application).
ProcBind(p) ==
    /\ pstate[p] = "boot"
    /\ \E taken \in BOOLEAN :
          /\ PortBound => taken
          /\ pstate' = [pstate EXCEPT ![p] = IF taken THEN "dead" ELSE "up"]
    /\ UNCHANGED <<current_process, attached_pid, client, conns,
                   managed, pc, ret, proc, isrun, res>>
    /\ unchangedRec /\ UNCHANGED <<mntVars, sshVars, extVars>>

\* A VM process exits on its own (crash, guest power-off, delayed reaction
\* to a terminate request).
ProcExit(p) ==
    /\ Alive(p)
    /\ pstate' = Kill(p)
    /\ UNCHANGED <<current_process, attached_pid, client, conns,
                   managed, pc, ret, proc, isrun, res>>
    /\ unchangedRec /\ UNCHANGED <<mntVars, sshVars, extVars>>

Environment == \E p \in Pids : ProcBind(p) \/ ProcExit(p)

\* -------------------------------------------------------- specifications
\* mount_target has not been called; the guest has nothing mounted.
MountIdle ==
    /\ emulator_type = "NONE"
    /\ is_android_mounted = FALSE
    /\ g_vdb2 = FALSE
    /\ g_echo = FALSE
    /\ g_rows = <<>>
    /\ g_mnt = NoDev
    /\ g_marker = "none"
    /\ mpc = "m_idle"
    /\ probe_check = ""
    /\ raw = "none"
    /\ candidate_device = NoDev
    /\ candidates = <<>>
    /\ idx = 1
    /\ tried = <<>>
    /\ cmds = <<>>
    /\ mresult = "none"

\* The state after QemuManager() and SSHWorker() are constructed at import
\* of app.py; a VM left over from a previous run of the application may be
\* running (it then holds the forwarded port).
SupInit ==
    /\ pstate \in {[p \in Pids |-> "free"],
                   [p \in Pids |-> IF p = 1 THEN "up" ELSE "free"]}
    /\ current_process = None
    /\ attached_pid = None
    /\ client = None
    /\ conns = {}
    /\ managed = {}
    /\ pc = [t \in Threads |-> IF t = RecThread THEN "rc_start" ELSE "idle"]
    /\ ret = [t \in Threads |-> "idle"]
    /\ proc = [t \in Threads |-> None]
    /\ isrun = [t \in Threads |-> FALSE]
    /\ res = [t \in Threads |-> "none"]
    /\ rc_pid = None
    /\ rc_health = "none"
    /\ rc_conn = "none"
    /\ rc_term = "none"
    /\ rc_result = "none"

\* No check_health is running.
SshIdle == probe = "none" /\ hc_path = "none"

\* The guest has its boot disk and a floppy; nothing is hot-plugged and
\* neither handler was called.
NoResponse == [code |-> 0, msg |-> "none"]
HotIdle ==
    /\ host_file = TRUE
    /\ guest_disks = {"fd0", "sda"}
    /\ hot_mounts = {}
    /\ q_drive = FALSE
    /\ q_device = FALSE
    /\ monitor_log = <<>>
    /\ guest_log = <<>>
    /\ before = {}
    /\ polls = 0
    /\ new_disk_name = ""
    /\ partitions = <<>>
    /\ mounts = <<>>
    /\ mount_response = NoResponse
    /\ eject_response = NoResponse
    /\ hot_calls = 0

\* send_monitor_command has not been called.
MonIdle ==
    /\ mon_pc = "mc_idle"
    /\ mon_cmd = "none"
    /\ resp = <<>>
    /\ greeting = <<>>
    /\ mon_sent = FALSE
    /\ mon_result = "none"
    /\ mon_value = <<>>
    /\ mon_calls = 0

\* No /api/delete request is being served; /mnt/android is read-only.
DelIdle ==
    /\ paths = [t \in Handlers |-> <<>>]
    /\ del_i = [t \in Handlers |-> 0]
    /\ results = [t \in Handlers |-> <<>>]
    /\ errors = [t \in Handlers |-> <<>>]
    /\ remounted_ro = [t \in Handlers |-> FALSE]
    /\ guest_rw = FALSE

\* No hot-plugged device exists and no thread is inside api_core_mount.
PairIdle ==
    /\ host_path = [t \in Handlers |-> ""]
    /\ c_before = [t \in Handlers |-> {}]
    /\ c_polls = [t \in Handlers |-> 0]
    /\ c_new_disk_name = [t \in Handlers |-> ""]
    /\ drives = {}
    /\ device_by = <<>>
    /\ backing = <<>>

ConIdle == DelIdle /\ PairIdle

Init == SupInit /\ MountIdle /\ SshIdle /\ HotIdle /\ MonIdle /\ ConIdle

ThreadStep(t, ser) ==
    \/ request(t, ser)
    \/ api_health(t, ser)
    \/ handler_return(t, ser)
    \/ api_core_start_check(t, ser)
    \/ api_core_start_close(t, ser)
    \/ api_core_start_wait(t, ser)
    \/ api_core_stop_check(t, ser)
    \/ api_core_stop_close(t, ser)
    \/ start_service_check(t, ser)
    \/ start_service_pre(t, ser)
    \/ start_service_spawn(t, ser)
    \/ stop_service_check(t, ser)
    \/ stop_service_oterm(t, ser)
    \/ stop_service_owait(t, ser)
    \/ stop_service_okill(t, ser)
    \/ stop_service_owait2(t, ser)
    \/ stop_service_ofin(t, ser)
    \/ stop_service_aterm(t, ser)
    \/ stop_service_await(t, ser)
    \/ stop_service_akill(t, ser)
    \/ stop_service_await2(t, ser)
    \/ stop_service_afin(t, ser)
    \/ reconnect_session_find(t, ser)
    \/ reconnect_session_probe(t, ser)
    \/ reconnect_session_connect(t, ser)
    \/ reconnect_session_attach(t, ser)
    \/ reconnect_session_term(t, ser)
    \/ reconnect_session_wait(t, ser)
    \/ reconnect_session_kill(t, ser)
    \/ reconnect_session_exit(t, ser)

Next == (\E t \in Threads : ThreadStep(t, "free")) \/ Environment
Spec == Init /\ [][Next]_vars

NextSeq == (\E t \in Threads : ThreadStep(t, "calls")) \/ Environment
SpecSeq == Init /\ [][NextSeq]_vars

\* A thread that can take a step eventually takes one: every step of the
\* methods is a system call that returns or a timeout that expires.
NextLive == (\E t \in Threads : ThreadStep(t, "one")) \/ Environment
SpecLive ==
    /\ Init /\ [][NextLive]_vars
    /\ \A t \in Threads : WF_vars(ThreadStep(t, "one"))

\* ------------------------------------------------ SSHWorker.mount_target
\* cfg.DRIVE1_CANDIDATES
DRIVE1_CANDIDATES == <<"/dev/vdb2", "/dev/vdb1", "/dev/vdb",
                       "/dev/sdb2", "/dev/sdb1", "/dev/sdb">>

\* Rows "NAME SIZE TYPE" the guest can print for
\* lsblk -rn -b -o NAME,SIZE,TYPE /dev/vdb: the disk itself, partitions with
\* a byte size, and a partition whose size column does not parse (int()
\* raises ValueError).
Rows ==
    {[name |-> "vdb", size |-> 3, parses |-> TRUE, type |-> "disk"],
     [name |-> "vdb3", size |-> 3, parses |-> FALSE, type |-> "part"]}
    \cup [name : {"vdb1", "vdb2", "vdb3"}, size : {1, 2}, parses : {TRUE},
          type : {"part"}]

RowSeqs == UNION {[1..n -> Rows] : n \in 0..MaxRows}

\* What the guest shell prints for
\*   lsblk -d -n -o NAME /dev/vdb2 2>/dev/null && echo YES || echo NO
\* after execute_command's strip(): only stderr of lsblk is discarded, so an
\* lsblk that prints the NAME column puts "vdb2" in front of the YES line.
probe_output ==
    IF g_vdb2
    THEN IF g_echo THEN "vdb2\nYES" ELSE "YES"
    ELSE "NO"

\* The loop over raw.splitlines(): best_part after the rows from i on, given
\* the best so far (max_size starts at -1, best_part at None = "").
RECURSIVE best_part_from(_, _, _, _)
best_part_from(rows, i, best, max_size) ==
    IF i > Len(rows) THEN best
    ELSE LET r == rows[i]
         IN  IF r.type = "part" /\ r.parses /\ r.size > max_size
             THEN best_part_from(rows, i + 1, r.name, r.size)
             ELSE best_part_from(rows, i + 1, best, max_size)

best_part_last(rows) ==
    LET ok == {i \in 1..Len(rows) : rows[i].type = "part" /\ rows[i].parses}
    IN  IF ok = {} THEN ""
        ELSE rows[CHOOSE i \in ok : \A j \in ok : j <= i].name
best_part(rows) == best_part_from(rows, 1, "", -1)

\* candidate_device = f"/dev/{best_part}" (no enumerated name starts with "/")
dev_path(name) == "/dev/" \o name

build_candidates_heuristic_only(cand) ==
    IF cand # NoDev THEN <<cand>> ELSE <<>>
build_candidates_with_duplicates(cand) ==
    (IF cand # NoDev THEN <<cand>> ELSE <<>>) \o DRIVE1_CANDIDATES
\* candidates: the heuristic candidate, then cfg.DRIVE1_CANDIDATES without it
build_candidates(cand) ==
    (IF cand # NoDev THEN <<cand>> ELSE <<>>)
    \o SelectSeq(DRIVE1_CANDIDATES, LAMBDA c : c # cand)

unchangedGuestCfg == UNCHANGED <<emulator_type, g_vdb2, g_echo, g_rows>>

\* mkdir -p MOUNT_POINT; umount MOUNT_POINT 2>/dev/null || true
\* execute_command raises when there is no client; the umount may fail
\* (busy) and the failure is discarded.
mount_target_reset ==
    /\ mpc = "m_idle"
    /\ IF client = None
       THEN /\ mresult' = "NotConnected"
            /\ mpc' = "m_done"
            /\ UNCHANGED <<g_mnt, cmds>>
       ELSE /\ cmds' = cmds \o <<"mkdir", "umount">>
            /\ g_mnt' \in {NoDev, g_mnt}
            /\ mpc' = "m_s1"
            /\ mresult' = mresult
    /\ UNCHANGED <<is_android_mounted, g_marker, probe_check, raw,
                   candidate_device, candidates, idx, tried>>
    /\ unchangedGuestCfg /\ UNCHANGED <<supVars, sshVars, extVars>>

\* Strategy 1: only for LDPLAYER; an exception of the probe is logged.
mount_target_primary ==
    /\ mpc = "m_s1"
    /\ IF emulator_type = "LDPLAYER"
       THEN /\ cmds' = Append(cmds, "probe")
            /\ \E raised \in BOOLEAN :
                  probe_check' = IF raised THEN "raised" ELSE probe_output
            /\ candidate_device' =
                  IF probe_check' = "YES" THEN "/dev/vdb2" ELSE NoDev
       ELSE UNCHANGED <<cmds, probe_check, candidate_device>>
    /\ mpc' = "m_s2"
    /\ UNCHANGED <<is_android_mounted, g_mnt, g_marker, raw, candidates, idx,
                   tried, mresult>>
    /\ unchangedGuestCfg /\ UNCHANGED <<supVars, sshVars, extVars>>

\* Strategy 2: only when strategy 1 gave no candidate; an exception of the
\* enumeration is logged.  Then the candidate list is built.
mount_target_fallback ==
    /\ mpc = "m_s2"
    /\ IF candidate_device = NoDev
       THEN /\ cmds' = Append(cmds, "lsblk")
            /\ \E raised \in BOOLEAN :
                  /\ raw' = IF raised THEN "raised" ELSE "rows"
                  /\ candidate_device' =
                         IF ~raised /\ best_part(g_rows) # ""
                         THEN dev_path(best_part(g_rows))
                         ELSE NoDev
       ELSE UNCHANGED <<cmds, raw, candidate_device>>
    /\ candidates' = build_candidates(candidate_device')
    /\ idx' = 1
    /\ mpc' = "m_try"
    /\ UNCHANGED <<is_android_mounted, g_mnt, g_marker, probe_check, tried,
                   mresult>>
    /\ unchangedGuestCfg /\ UNCHANGED <<supVars, sshVars, extVars>>

\* What is found under the mount point once a device is mounted there: the
\* directory app, the directory system (and no app), or neither.
Markers == {"app", "system", "none"}

\* Output lines of the marker check, stdout then stderr, for
\*   ls MP/app || ls MP/system 2>/dev/null && echo CHECK_OK || echo CHECK_FAIL
\* The shell groups it as ((ls app || ls system) && echo OK) || echo FAIL,
\* and only the second ls has its stderr discarded.
check_fs_output_always_ok(marker) == <<"listing", "CHECK_OK">>
check_fs_output(marker) ==
    IF marker = "app" THEN <<"listing", "CHECK_OK">>
    ELSE IF marker = "system" THEN <<"listing", "CHECK_OK", "ls: app: error">>
    ELSE <<"CHECK_FAIL", "ls: app: error">>

\* "CHECK_FAIL" in check_fs
Contains(out, word) == \E i \in 1..Len(out) : out[i] = word

\* One turn of the loop: mount -t ext4 ... device, then mountpoint -q; on OK
\* the marker check sets is_android_mounted and the device is returned.
mount_target_try ==
    /\ mpc = "m_try" /\ idx <= Len(candidates)
    /\ tried' = Append(tried, candidates[idx])
    /\ \E mounted \in BOOLEAN, marker \in Markers :
          /\ g_mnt' = IF mounted THEN candidates[idx] ELSE g_mnt
          /\ g_marker' = IF g_mnt' # NoDev THEN marker ELSE g_marker
          /\ IF g_mnt' # NoDev
             THEN /\ cmds' = cmds \o <<"mount", "mountpoint", "ls">>
                  /\ is_android_mounted' =
                         ~Contains(check_fs_output(marker), "CHECK_FAIL")
                  /\ mresult' = candidates[idx]
                  /\ mpc' = "m_done"
                  /\ idx' = idx
             ELSE /\ cmds' = cmds \o <<"mount", "mountpoint">>
                  /\ idx' = idx + 1
                  /\ UNCHANGED <<is_android_mounted, mresult, mpc>>
    /\ UNCHANGED <<probe_check, raw, candidate_device, candidates>>
    /\ unchangedGuestCfg /\ UNCHANGED <<supVars, sshVars, extVars>>

\* The device names the RuntimeError's message lists: {candidates}
mount_failed_names == candidates

\* raise RuntimeError(f"Failed to mount any of {candidates} ...")
mount_target_fail ==
    /\ mpc = "m_try" /\ idx > Len(candidates)
    /\ mresult' = "MountFailed"
    /\ mpc' = "m_done"
    /\ UNCHANGED <<is_android_mounted, g_mnt, g_marker, probe_check, raw,
                   candidate_device, candidates, idx, tried, cmds>>
    /\ unchangedGuestCfg /\ UNCHANGED <<supVars, sshVars, extVars>>

\* One call of mount_target on the SSHWorker, for every target kind set by
\* set_emulator_type and every guest; is_android_mounted is False on a fresh
\* worker and may be True after an earlier call; something may still be
\* mounted at the mount point from an earlier session.
MountInit ==
    /\ emulator_type \in {"LDPLAYER", "MEMU"}
    /\ is_android_mounted \in BOOLEAN
    /\ g_vdb2 \in BOOLEAN
    /\ g_echo \in BOOLEAN
    /\ g_rows \in RowSeqs
    /\ g_mnt \in {NoDev, "/dev/sdb"}
    /\ g_marker = "none"
    /\ mpc = "m_idle"
    /\ probe_check = ""
    /\ raw = "none"
    /\ candidate_device = NoDev
    /\ candidates = <<>>
    /\ idx = 1
    /\ tried = <<>>
    /\ cmds = <<>>
    /\ mresult = "none"
    /\ pstate = [p \in Pids |-> IF p = 1 THEN "up" ELSE "free"]
    /\ current_process = 1
    /\ attached_pid = None
    /\ client \in {None, 1}
    /\ conns = IF client = None THEN {} ELSE {client}
    /\ managed = {1}
    /\ pc = [t \in Threads |-> IF t = RecThread THEN "rc_exit" ELSE "idle"]
    /\ ret = [t \in Threads |-> "idle"]
    /\ proc = [t \in Threads |-> None]
    /\ isrun = [t \in Threads |-> FALSE]
    /\ res = [t \in Threads |-> "none"]
    /\ rc_pid = None
    /\ rc_health = "none"
    /\ rc_conn = "none"
    /\ rc_term = "none"
    /\ rc_result = "none"
    /\ SshIdle /\ HotIdle /\ MonIdle /\ ConIdle

NextMount ==
    \/ mount_target_reset
    \/ mount_target_primary
    \/ mount_target_fallback
    \/ mount_target_try
    \/ mount_target_fail
SpecMount == MountInit /\ [][NextMount]_vars

\* ------------------------------------------------------------- SSHWorker
\* The calls of SSHWorker made by worker threads (connect, close,
\* execute_command, and the handler api_apps that connects on demand), next
\* to one call of check_health made by the recovery thread.
unchangedMntButCmds ==
    UNCHANGED <<emulator_type, is_android_mounted, g_vdb2, g_echo, g_rows,
                g_mnt, g_marker, mpc, probe_check, raw, candidate_device,
                candidates, idx, tried, mresult>>

\* A worker thread starts a call.  connect() is entered at once: from then
\* on its paramiko client.connect(...) is in progress.
ssh_request(t) ==
    /\ t \in Handlers /\ pc[t] = "idle"
    /\ \E op \in {"cn_connecting", "cl_close", "ex_check", "ap_check",
                  "up_check"} :
          /\ (op \in {"ex_check", "ap_check"}) => Len(cmds) < MaxCmds
          /\ pc' = [pc EXCEPT ![t] = op]
          /\ ret' = [ret EXCEPT ![t] = "ss_ret"]
    /\ UNCHANGED <<proc, isrun, res>>
    /\ unchangedOS /\ unchangedSsh /\ unchangedQemu /\ unchangedRec
    /\ UNCHANGED <<mntVars, sshVars, extVars>>

\* SSHWorker.connect: client.connect(...) ends; on success
\* self._client = client, on failure the exception goes to the caller.
ssh_connect(t) ==
    /\ pc[t] = "cn_connecting"
    /\ \E ok \in BOOLEAN :
          /\ ok => (GuestReachable /\ FreeConns # {})
          /\ IF ok
             THEN /\ client' = NewConn
                  /\ conns' = conns \cup {NewConn}
                  /\ pc' = [pc EXCEPT ![t] = ret[t]]
                  /\ res' = res
             ELSE /\ UNCHANGED <<client, conns>>
                  /\ pc' = [pc EXCEPT ![t] = "ss_ret"]
                  /\ res' = [res EXCEPT ![t] = "ConnectError"]
    /\ UNCHANGED <<ret, proc, isrun>>
    /\ unchangedOS /\ unchangedQemu /\ unchangedRec
    /\ UNCHANGED <<mntVars, sshVars, extVars>>

\* SSHWorker.close
ssh_close(t) ==
    /\ pc[t] = "cl_close"
    /\ client' = close_client
    /\ conns' = close_conns
    /\ pc' = [pc EXCEPT ![t] = "ss_ret"]
    /\ UNCHANGED <<ret, proc, isrun, res>>
    /\ unchangedOS /\ unchangedQemu /\ unchangedRec
    /\ UNCHANGED <<mntVars, sshVars, extVars>>

not_connected_never(c) == FALSE
\* execute_command: if self._client is None
not_connected(c) == c = None

\* execute_command: raise RuntimeError("Not connected...") without a client
execute_command_check(t) ==
    /\ pc[t] = "ex_check"
    /\ IF not_connected(client)
       THEN /\ res' = [res EXCEPT ![t] = "NotConnected"]
            /\ pc' = [pc EXCEPT ![t] = "ss_ret"]
       ELSE /\ res' = res
            /\ pc' = [pc EXCEPT ![t] = "ex_send"]
    /\ UNCHANGED <<ret, proc, isrun>>
    /\ unchangedOS /\ unchangedSsh /\ unchangedQemu /\ unchangedRec
    /\ UNCHANGED <<mntVars, sshVars, extVars>>

\* execute_command: self._client.exec_command(cmd, timeout=30) reads
\* self._client again; a close() in between leaves None there and the call
\* raises AttributeError.
execute_command_send(t) ==
    /\ pc[t] = "ex_send"
    /\ IF client = None
       THEN /\ res' = [res EXCEPT ![t] = "AttributeError"]
            /\ cmds' = cmds
       ELSE /\ res' = [res EXCEPT ![t] = "output"]
            /\ cmds' = Append(cmds, "exec")
    /\ pc' = [pc EXCEPT ![t] = "ss_ret"]
    /\ UNCHANGED <<ret, proc, isrun>>
    /\ unchangedOS /\ unchangedSsh /\ unchangedQemu /\ unchangedRec
    /\ unchangedMntButCmds /\ UNCHANGED <<sshVars, extVars>>

\* api_apps: if not qemu.is_running: return _error(...)
api_apps_check(t) ==
    /\ pc[t] = "ap_check"
    /\ attached_pid' = is_running_cleanup
    /\ IF is_running
       THEN /\ pc' = [pc EXCEPT ![t] = "ap_client"]
            /\ res' = res
       ELSE /\ pc' = [pc EXCEPT ![t] = "ss_ret"]
            /\ res' = [res EXCEPT ![t] = "VmNotRunning"]
    /\ UNCHANGED <<current_process, managed, ret, proc, isrun>>
    /\ unchangedOS /\ unchangedSsh /\ unchangedRec
    /\ UNCHANGED <<mntVars, sshVars, extVars>>

\* api_apps: if ssh._client is None: ssh.connect().  connection_lock is
\* neither acquired nor tested here (nor anywhere else in app.py).  After
\* the connect, ssh.list_bloatware runs its commands with execute_command.
api_apps_client(t) ==
    /\ pc[t] = "ap_client"
    /\ pc' = [pc EXCEPT ![t] = IF client = None THEN "cn_connecting"
                               ELSE "ex_check"]
    /\ ret' = [ret EXCEPT ![t] = "ex_check"]
    /\ UNCHANGED <<proc, isrun, res>>
    /\ unchangedOS /\ unchangedSsh /\ unchangedQemu /\ unchangedRec
    /\ UNCHANGED <<mntVars, sshVars, extVars>>

\* upload_file: if self._client is None: raise RuntimeError
upload_file_check(t) ==
    /\ pc[t] = "up_check"
    /\ IF client = None
       THEN /\ res' = [res EXCEPT ![t] = "SshNotConnected"]
            /\ pc' = [pc EXCEPT ![t] = "ss_ret"]
       ELSE /\ res' = res
            /\ pc' = [pc EXCEPT ![t] = "up_put"]
    /\ UNCHANGED <<ret, proc, isrun>>
    /\ unchangedOS /\ unchangedSsh /\ unchangedQemu /\ unchangedRec
    /\ UNCHANGED <<mntVars, sshVars, extVars>>

\* upload_file: try: sftp = self._client.open_sftp(); ...; sftp.put(...)
\* It succeeds only over a client whose guest answers; any exception (also
\* the AttributeError after a close() in between) enters the except branch,
\* whose first statement is self.connect().
upload_file_put(t) ==
    /\ pc[t] = "up_put"
    /\ \E ok \in BOOLEAN :
          /\ ok => (client # None /\ GuestReachable)
          /\ IF ok
             THEN /\ res' = [res EXCEPT ![t] = "uploaded"]
                  /\ pc' = [pc EXCEPT ![t] = "ss_ret"]
                  /\ ret' = ret
             ELSE /\ res' = res
                  /\ pc' = [pc EXCEPT ![t] = "cn_connecting"]
                  /\ ret' = [ret EXCEPT ![t] = "up_retry"]
    /\ UNCHANGED <<proc, isrun>>
    /\ unchangedOS /\ unchangedSsh /\ unchangedQemu /\ unchangedRec
    /\ UNCHANGED <<mntVars, sshVars, extVars>>

\* upload_file, after the reconnect: sftp = self._client.open_sftp();
\* sftp.put(...); an exception here goes to the caller.
upload_file_retry(t) ==
    /\ pc[t] = "up_retry"
    /\ \E ok \in BOOLEAN :
          /\ ok => (client # None /\ GuestReachable)
          /\ res' = [res EXCEPT ![t] = IF ok THEN "uploaded"
                                       ELSE "UploadError"]
    /\ pc' = [pc EXCEPT ![t] = "ss_ret"]
    /\ UNCHANGED <<ret, proc, isrun>>
    /\ unchangedOS /\ unchangedSsh /\ unchangedQemu /\ unchangedRec
    /\ UNCHANGED <<mntVars, sshVars, extVars>>

\* The call returns to the worker thread.
ssh_return(t) ==
    /\ pc[t] = "ss_ret"
    /\ pc' = [pc EXCEPT ![t] = "idle"]
    /\ res' = [res EXCEPT ![t] = "none"]
    /\ ret' = [ret EXCEPT ![t] = "idle"]
    /\ UNCHANGED <<proc, isrun>>
    /\ unchangedOS /\ unchangedSsh /\ unchangedQemu /\ unchangedRec
    /\ UNCHANGED <<mntVars, sshVars, extVars>>

\* ---- SSHWorker.check_health
\* probe = paramiko.SSHClient()
check_health_create(t) ==
    /\ pc[t] = "hc_start"
    /\ probe' = "created"
    /\ pc' = [pc EXCEPT ![t] = "hc_connect"]
    /\ UNCHANGED hc_path
    /\ unchangedOS /\ unchangedSsh /\ unchangedQemu /\ unchangedLocals
    /\ unchangedRec /\ UNCHANGED <<mntVars, extVars>>

\* probe.connect(..., timeout=2): it succeeds only when a guest answers; a
\* refused or timed-out TCP connect leaves no transport, an authentication
\* failure leaves the transport of the probe open.
check_health_connect(t) ==
    /\ pc[t] = "hc_connect"
    /\ \E out \in {"ok", "connect_error", "auth_error"} :
          /\ (out \in {"ok", "auth_error"}) => GuestReachable
          /\ probe' = IF out = "connect_error" THEN probe ELSE "open"
          /\ hc_path' = out
          /\ pc' = [pc EXCEPT ![t] = IF out = "ok" THEN "hc_exec"
                                     ELSE "hc_finally"]
          /\ rc_health' = IF out = "ok" THEN rc_health ELSE "false"
    /\ UNCHANGED <<rc_pid, rc_conn, rc_term, rc_result>>
    /\ unchangedOS /\ unchangedSsh /\ unchangedQemu /\ unchangedLocals
    /\ UNCHANGED <<mntVars, extVars>>

\* The probe's stdout after strip(), for echo 'KhanhNguyen9872'
HEALTH_SENTINEL == "KhanhNguyen9872"
HealthOutputs == {HEALTH_SENTINEL, "", "timeout"}

\* probe.exec_command(echo sentinel, timeout=3); return output == sentinel;
\* a timeout raises and the except branch returns False.
check_health_exec(t) ==
    /\ pc[t] = "hc_exec"
    /\ \E output \in HealthOutputs :
          /\ hc_path' = IF output = "timeout" THEN "timeout"
                        ELSE IF output = HEALTH_SENTINEL THEN "match"
                        ELSE "mismatch"
          /\ rc_health' = IF output = HEALTH_SENTINEL THEN "true" ELSE "false"
    /\ pc' = [pc EXCEPT ![t] = "hc_finally"]
    /\ UNCHANGED <<probe, rc_pid, rc_conn, rc_term, rc_result>>
    /\ unchangedOS /\ unchangedSsh /\ unchangedQemu /\ unchangedLocals
    /\ UNCHANGED <<mntVars, extVars>>

probe_close_skipped(pr) == pr
\* finally: if probe is not None: probe.close()
probe_close(pr) == IF pr = "none" THEN pr ELSE "closed"

client_after_probe_shared(c) == None
\* The probe is an object of its own: closing it leaves self._client as is.
client_after_probe(c) == c

\* finally clause of check_health, then the return of the value
check_health_finally(t) ==
    /\ pc[t] = "hc_finally"
    /\ probe' = probe_close(probe)
    /\ client' = client_after_probe(client)
    /\ pc' = [pc EXCEPT ![t] = "hc_done"]
    /\ UNCHANGED <<conns, hc_path>>
    /\ unchangedOS /\ unchangedQemu /\ unchangedLocals
    /\ unchangedRec /\ UNCHANGED <<mntVars, extVars>>

\* The VM was started by this supervisor and its guest answers on the
\* forwarded port; a persistent connection may exist already.
SshInit ==
    /\ pstate = [p \in Pids |-> IF p = 1 THEN "up" ELSE "free"]
    /\ current_process = 1
    /\ attached_pid = None
    /\ client \in {None, 1}
    /\ conns = IF client = None THEN {} ELSE {client}
    /\ managed = {1}
    /\ pc = [t \in Threads |-> IF t = RecThread THEN "hc_start" ELSE "idle"]
    /\ ret = [t \in Threads |-> "idle"]
    /\ proc = [t \in Threads |-> None]
    /\ isrun = [t \in Threads |-> FALSE]
    /\ res = [t \in Threads |-> "none"]
    /\ rc_pid = None
    /\ rc_health = "none"
    /\ rc_conn = "none"
    /\ rc_term = "none"
    /\ rc_result = "none"
    /\ MountIdle /\ SshIdle /\ HotIdle /\ MonIdle /\ ConIdle

SshStep(t) ==
    \/ ssh_request(t)
    \/ ssh_connect(t)
    \/ ssh_close(t)
    \/ execute_command_check(t)
    \/ execute_command_send(t)
    \/ api_apps_check(t)
    \/ api_apps_client(t)
    \/ upload_file_check(t)
    \/ upload_file_put(t)
    \/ upload_file_retry(t)
    \/ ssh_return(t)
    \/ check_health_create(t)
    \/ check_health_connect(t)
    \/ check_health_exec(t)
    \/ check_health_finally(t)

NextSsh == (\E t \in Threads : SshStep(t)) \/ (\E p \in Pids : ProcExit(p))
SpecSsh == SshInit /\ [][NextSsh]_vars

\* ====================================================== hotplug coordinator
\* api_core_mount and api_core_eject (app.py) with QemuManager.hotplug_drive
\* and hotunplug_drive.  One worker thread serves the requests one after
\* the other; a call of send_monitor_command is one step here and is taken
\* apart in the monitor section below.
HotThread == "h1"

\* Names the guest kernel may give to a hot-plugged disk.
HotNames == {"sdb", "sdc"}
\* The disk names of the model in lexicographic (Python str) order.
NameOrder == <<"fd0", "sda", "sdb", "sdc">>
rank(n) == CHOOSE i \in 1..Len(NameOrder) : NameOrder[i] = n

\* Mutation of sorted_first: the last name of the sorted list is taken.
sorted_first_is_last(S) == CHOOSE n \in S : \A m \in S : rank(m) <= rank(n)
\* api_core_mount: sorted(new)[0]
sorted_first(S) == CHOOSE n \in S : \A m \in S : rank(n) <= rank(m)

\* list_real_disks: re.match(r'^(fd|loop|sr)\d*$', name); of the names of
\* the model only the floppy matches.
skipped(n) == n = "fd0"
\* list_real_disks: the names lsblk prints with TYPE disk, minus the skipped
list_real_disks == {n \in guest_disks : ~skipped(n)}

\* Partition tables a host image may carry: partitions 1..n, in the order
\* lsblk prints them.
PartTables == {[i \in 1..n |-> i] : n \in 0..MaxParts}

\* SSHWorker has no method hot_mount (ssh_worker.py defines no such name and
\* no __getattr__): the call ssh.hot_mount(...) raises AttributeError.
hot_mount == "AttributeError"

\* Texts of the responses and of the exceptions.
VmNotRunning == "Core VM is not running."
InvalidPath == "Invalid or missing host path."
MissingDriveId == "Missing drive ID."
CannotHotplug == "Cannot hotplug: QEMU is not running."
DiskNotDetected == "Could not detect newly hotplugged disk"
SshError == "execute_command raised"

\* Mutation of monitor_error: the cause is passed on as it is.
monitor_error_unwrapped(cause) == cause
\* send_monitor_command: except Exception as e: raise RuntimeError(...)
monitor_error(cause) == "Failed to communicate with QEMU monitor"

\* Mutation of path_invalid: the path is never refused.
path_invalid_never(exists) == FALSE
\* api_core_mount: if not host_path or not os.path.exists(host_path)
path_invalid(exists) == ~exists

\* Mutation of hotplug_cmds: the device is added before its drive.
hotplug_cmds_swapped == <<"device_add", "drive_add">>
\* hotplug_drive: the two monitor commands in the order of the calls
hotplug_cmds == <<"drive_add", "device_add">>
\* hotunplug_drive: the two monitor commands in the order of the calls
hotunplug_cmds == <<"device_del", "drive_del">>
MonitorCmds == {"drive_add", "device_add", "device_del", "drive_del"}

\* What QEMU does with a command it received: <<drive exists, device exists>>.
\* device_add needs the drive it names.
monitor_effect(cmd) ==
    CASE cmd = "drive_add"  -> <<TRUE, q_device>>
      [] cmd = "device_add" -> <<q_drive, q_device \/ q_drive>>
      [] cmd = "device_del" -> <<q_drive, FALSE>>
      [] cmd = "drive_del"  -> <<FALSE, q_device>>
      [] OTHER              -> <<q_drive, q_device>>

\* The monitor port is served by a live VM process.
MonitorListening == \E p \in Pids : Alive(p)

hotGuest == <<host_file, guest_disks>>
hotQemu == <<q_drive, q_device, monitor_log>>
hotLocals == <<before, polls, new_disk_name, partitions, mounts>>
hotResp == <<mount_response, eject_response>>
hotFrame ==
    /\ unchangedOS /\ unchangedSsh /\ unchangedRec
    /\ UNCHANGED <<current_process, managed, proc, isrun>>
    /\ UNCHANGED <<mntVars, sshVars, monVars, conVars>>

at(l) == pc[HotThread] = l
goto(l) == pc' = [pc EXCEPT ![HotThread] = l]
raise(e, l) == res' = [res EXCEPT ![HotThread] = e] /\ goto(l)

\* ssh.execute_command(cmd) called by a handler: it returns when there is a
\* client and the guest answers, and raises otherwise (no client, dead
\* transport, timeout).
guest_exec(cmd, ok) ==
    /\ ok => (~not_connected(client) /\ GuestReachable)
    /\ guest_log' = Append(guest_log,
                           [cmd |-> cmd, out |-> IF ok THEN "ok" ELSE "raised"])

\* One call of send_monitor_command(cmd): it returns (out = "ok") or raises.
\* A call that raises in its second read phase has sent the command
\* already, so QEMU may have applied it; a call that returns may carry an
\* error text of QEMU, which its callers only log, so the command may not
\* have been applied.
monitor_call(cmd, out, applied) ==
    /\ out \in {"ok", monitor_error("any")}
    /\ applied => MonitorListening
    /\ (out = "ok") => MonitorListening
    /\ monitor_log' = Append(monitor_log, [cmd |-> cmd, out |-> out])
    /\ q_drive' = IF applied THEN monitor_effect(cmd)[1] ELSE q_drive
    /\ q_device' = IF applied THEN monitor_effect(cmd)[2] ELSE q_device

\* The locals of api_core_mount before their first assignment.
NoLocals ==
    /\ before' = {} /\ polls' = 0 /\ new_disk_name' = ""
    /\ partitions' = <<>> /\ mounts' = <<>>

\* A request for /api/core/mount or /api/core/eject arrives; the two logs
\* start again.
hot_request ==
    /\ at("idle") /\ hot_calls < MaxHotCalls
    /\ hot_calls' = hot_calls + 1
    /\ \E op \in {"hm_check", "he_check"} : goto(op)
    /\ monitor_log' = <<>>
    /\ guest_log' = <<>>
    /\ UNCHANGED <<attached_pid, res, ret, hot_mounts, hotGuest, q_drive,
                   q_device, hotLocals, hotResp>>
    /\ hotFrame

\* api_core_mount: if not qemu.is_running: return _error(..., 400)
api_core_mount_check ==
    /\ at("hm_check")
    /\ attached_pid' = is_running_cleanup
    /\ IF is_running
       THEN goto("hm_path") /\ UNCHANGED mount_response
       ELSE goto("idle") /\ mount_response' = [code |-> 400, msg |-> VmNotRunning]
    /\ UNCHANGED <<res, ret, hot_mounts, guest_log, hotGuest, hotQemu, hotLocals,
                   eject_response, hot_calls>>
    /\ hotFrame

\* api_core_mount: the check of host_path
api_core_mount_path ==
    /\ at("hm_path")
    /\ IF path_invalid(host_file)
       THEN goto("idle") /\ mount_response' = [code |-> 400, msg |-> InvalidPath]
       ELSE goto("hm_before") /\ UNCHANGED mount_response
    /\ UNCHANGED <<attached_pid, res, ret, hot_mounts, guest_log, hotGuest,
                   hotQemu, hotLocals, eject_response, hot_calls>>
    /\ hotFrame

\* api_core_mount: before = list_real_disks(); an exception goes to the
\* except clause of the handler.
api_core_mount_before ==
    /\ at("hm_before")
    /\ \E ok \in BOOLEAN :
          /\ guest_exec("lsblk", ok)
          /\ IF ok
             THEN /\ before' = list_real_disks
                  /\ goto("hp_check") /\ UNCHANGED res
             ELSE /\ before' = before
                  /\ raise(SshError, "hm_cleanup")
    /\ UNCHANGED <<attached_pid, ret, hot_mounts, hotGuest, hotQemu, polls,
                   new_disk_name, partitions, mounts, hotResp, hot_calls>>
    /\ hotFrame

\* hotplug_drive: if not self.is_running: raise RuntimeError(...)
hotplug_drive_check ==
    /\ at("hp_check")
    /\ attached_pid' = is_running_cleanup
    /\ IF is_running
       THEN goto("hp_first") /\ UNCHANGED res
       ELSE raise(CannotHotplug, "hm_cleanup")
    /\ UNCHANGED <<ret, hot_mounts, guest_log, hotGuest, hotQemu, hotLocals,
                   hotResp, hot_calls>>
    /\ hotFrame

\* hotplug_drive: resp_drive = self.send_monitor_command(drive_cmd); the
\* response is logged and not looked at, an exception leaves the method.
hotplug_drive_first ==
    /\ at("hp_first")
    /\ \E out \in {"ok", monitor_error("any")}, applied \in BOOLEAN :
          /\ monitor_call(hotplug_cmds[1], out, applied)
          /\ IF out = "ok"
             THEN goto("hp_second") /\ UNCHANGED res
             ELSE raise(out, "hm_cleanup")
    /\ UNCHANGED <<attached_pid, ret, hot_mounts, guest_log, hotGuest,
                   hotLocals, hotResp, hot_calls>>
    /\ hotFrame

\* hotplug_drive: resp_dev = self.send_monitor_command(device_cmd)
hotplug_drive_second ==
    /\ at("hp_second")
    /\ \E out \in {"ok", monitor_error("any")}, applied \in BOOLEAN :
          /\ monitor_call(hotplug_cmds[2], out, applied)
          /\ IF out = "ok"
             THEN goto("hm_poll") /\ UNCHANGED res
             ELSE raise(out, "hm_cleanup")
    /\ UNCHANGED <<attached_pid, ret, hot_mounts, guest_log, hotGuest,
                   hotLocals, hotResp, hot_calls>>
    /\ hotFrame

\* api_core_mount: one turn of for _ in range(6): sleep, after =
\* list_real_disks(), new = after - before, and the break on a new name.
api_core_mount_poll ==
    /\ at("hm_poll") /\ polls < PollAttempts
    /\ polls' = polls + 1
    /\ \E ok \in BOOLEAN :
          /\ guest_exec("lsblk", ok)
          /\ IF ~ok
             THEN /\ raise(SshError, "hm_cleanup")
                  /\ new_disk_name' = new_disk_name
             ELSE LET new == list_real_disks \ before
                  IN  IF new # {}
                      THEN /\ new_disk_name' = sorted_first(new)
                           /\ goto("hm_parts") /\ UNCHANGED res
                      ELSE /\ new_disk_name' = new_disk_name
                           /\ UNCHANGED <<pc, res>>
    /\ UNCHANGED <<attached_pid, ret, hot_mounts, hotGuest, hotQemu, before,
                   partitions, mounts, hotResp, hot_calls>>
    /\ hotFrame

\* api_core_mount: the loop ended without a break;
\* if not new_disk_name: raise RuntimeError("Could not detect ...")
api_core_mount_nodisk ==
    /\ at("hm_poll") /\ polls >= PollAttempts
    /\ raise(DiskNotDetected, "hm_cleanup")
    /\ UNCHANGED <<attached_pid, ret, hot_mounts, guest_log, hotGuest, hotQemu,
                   hotLocals, hotResp, hot_calls>>
    /\ hotFrame

\* api_core_mount: partitions = list_partitions(new_disk_name); the guest
\* prints the partition table of the image.
api_core_mount_partitions ==
    /\ at("hm_parts")
    /\ \E ok \in BOOLEAN :
          /\ guest_exec("lsblk_parts", ok)
          /\ IF ok
             THEN /\ partitions' \in PartTables
                  /\ goto("hm_mount") /\ UNCHANGED res
             ELSE /\ partitions' = partitions
                  /\ raise(SshError, "hm_cleanup")
    /\ UNCHANGED <<attached_pid, ret, hot_mounts, hotGuest, hotQemu, before,
                   polls, new_disk_name, mounts, hotResp, hot_calls>>
    /\ hotFrame

\* api_core_mount: the first ssh.hot_mount(...) call, for the first
\* partition or for the raw disk.  It raises before anything is appended to
\* mounts, so the rest of the loop, the check of successfully_mounted and
\* the "ok" response (lines 1540-1575) are never reached.
api_core_mount_hot_mount ==
    /\ at("hm_mount")
    /\ hot_mount = "AttributeError"
    /\ raise(hot_mount, "hm_cleanup")
    /\ UNCHANGED <<attached_pid, ret, hot_mounts, guest_log, hotGuest, hotQemu,
                   hotLocals, hotResp, hot_calls>>
    /\ hotFrame

\* api_core_mount, except clause: the guarded umount -R base_mount, then
\* the guarded call of qemu.hotunplug_drive(drive_id)
api_core_mount_cleanup ==
    /\ at("hm_cleanup")
    /\ \E ok \in BOOLEAN :
          /\ guest_exec("umount", ok)
          /\ hot_mounts' = IF ok THEN {} ELSE hot_mounts
    /\ goto("hu_check")
    /\ ret' = [ret EXCEPT ![HotThread] = "hm_error"]
    /\ UNCHANGED <<attached_pid, res, hotGuest, hotQemu, hotLocals, hotResp,
                   hot_calls>>
    /\ hotFrame

\* hotunplug_drive: if not self.is_running: return
hotunplug_drive_check ==
    /\ at("hu_check")
    /\ attached_pid' = is_running_cleanup
    /\ goto(IF is_running THEN "hu_first" ELSE ret[HotThread])
    /\ UNCHANGED <<res, ret, hot_mounts, guest_log, hotGuest, hotQemu,
                   hotLocals, hotResp, hot_calls>>
    /\ hotFrame

\* Where an exception of hotunplug_drive ends: api_core_mount passes over it
\* (except Exception: pass), api_core_eject answers "Eject failed".
hotunplug_raised(out) ==
    IF ret[HotThread] = "hm_error"
    THEN goto("hm_error") /\ UNCHANGED res
    ELSE raise(out, "he_except")

\* hotunplug_drive: resp_dev = self.send_monitor_command(dev_cmd); nothing
\* guards the call.
hotunplug_drive_first ==
    /\ at("hu_first")
    /\ \E out \in {"ok", monitor_error("any")}, applied \in BOOLEAN :
          /\ monitor_call(hotunplug_cmds[1], out, applied)
          /\ IF out = "ok"
             THEN goto("hu_second") /\ UNCHANGED res
             ELSE hotunplug_raised(out)
    /\ UNCHANGED <<attached_pid, ret, hot_mounts, guest_log, hotGuest,
                   hotLocals, hotResp, hot_calls>>
    /\ hotFrame

\* hotunplug_drive: resp_drive = self.send_monitor_command(drive_cmd)
hotunplug_drive_second ==
    /\ at("hu_second")
    /\ \E out \in {"ok", monitor_error("any")}, applied \in BOOLEAN :
          /\ monitor_call(hotunplug_cmds[2], out, applied)
          /\ IF out = "ok"
             THEN goto(ret[HotThread]) /\ UNCHANGED res
             ELSE hotunplug_raised(out)
    /\ UNCHANGED <<attached_pid, ret, hot_mounts, guest_log, hotGuest,
                   hotLocals, hotResp, hot_calls>>
    /\ hotFrame

\* api_core_mount: return _error(f"Mount failed: {exc}", 500)
api_core_mount_error ==
    /\ at("hm_error")
    /\ mount_response' = [code |-> 500, msg |-> res[HotThread]]
    /\ goto("idle")
    /\ ret' = [ret EXCEPT ![HotThread] = "idle"]
    /\ res' = [res EXCEPT ![HotThread] = "none"]
    /\ NoLocals
    /\ UNCHANGED <<attached_pid, hot_mounts, guest_log, hotGuest, hotQemu,
                   eject_response, hot_calls>>
    /\ hotFrame

\* api_core_eject: if not qemu.is_running: return _error(..., 400)
api_core_eject_check ==
    /\ at("he_check")
    /\ attached_pid' = is_running_cleanup
    /\ IF is_running
       THEN goto("he_id") /\ UNCHANGED eject_response
       ELSE goto("idle") /\ eject_response' = [code |-> 400, msg |-> VmNotRunning]
    /\ UNCHANGED <<res, ret, hot_mounts, guest_log, hotGuest, hotQemu, hotLocals,
                   mount_response, hot_calls>>
    /\ hotFrame

\* api_core_eject: if not drive_id: return _error("Missing drive ID.", 400)
api_core_eject_id ==
    /\ at("he_id")
    /\ \E drive_id \in BOOLEAN :
          IF drive_id
          THEN goto("he_umount") /\ UNCHANGED eject_response
          ELSE goto("idle") /\ eject_response' = [code |-> 400, msg |-> MissingDriveId]
    /\ UNCHANGED <<attached_pid, res, ret, hot_mounts, guest_log, hotGuest,
                   hotQemu, hotLocals, mount_response, hot_calls>>
    /\ hotFrame

\* api_core_eject: ssh.execute_command("umount -R ..."), the first statement
\* of the one try block; an exception goes to its except clause.
api_core_eject_umount ==
    /\ at("he_umount")
    /\ \E ok \in BOOLEAN :
          /\ guest_exec("umount", ok)
          /\ IF ok
             THEN /\ hot_mounts' = {}
                  /\ goto("he_rm") /\ UNCHANGED res
             ELSE /\ hot_mounts' = hot_mounts
                  /\ raise(SshError, "he_except")
    /\ UNCHANGED <<attached_pid, ret, hotGuest, hotQemu, hotLocals, hotResp,
                   hot_calls>>
    /\ hotFrame

\* api_core_eject: ssh.execute_command("rm -rf ..."), then the call of
\* qemu.hotunplug_drive(drive_id), in the same try block
api_core_eject_rm ==
    /\ at("he_rm")
    /\ \E ok \in BOOLEAN :
          /\ guest_exec("rm", ok)
          /\ IF ok
             THEN /\ goto("hu_check") /\ UNCHANGED res
                  /\ ret' = [ret EXCEPT ![HotThread] = "he_ok"]
             ELSE /\ raise(SshError, "he_except")
                  /\ ret' = ret
    /\ UNCHANGED <<attached_pid, hot_mounts, hotGuest, hotQemu, hotLocals,
                   hotResp, hot_calls>>
    /\ hotFrame

\* api_core_eject: return jsonify({"status": "ok", ...})
api_core_eject_ok ==
    /\ at("he_ok")
    /\ eject_response' = [code |-> 200, msg |-> "ok"]
    /\ goto("idle")
    /\ ret' = [ret EXCEPT ![HotThread] = "idle"]
    /\ UNCHANGED <<attached_pid, res, hot_mounts, guest_log, hotGuest, hotQemu,
                   hotLocals, mount_response, hot_calls>>
    /\ hotFrame

\* api_core_eject: except Exception as exc: return _error("Eject failed", 500)
api_core_eject_except ==
    /\ at("he_except")
    /\ eject_response' = [code |-> 500, msg |-> res[HotThread]]
    /\ goto("idle")
    /\ ret' = [ret EXCEPT ![HotThread] = "idle"]
    /\ res' = [res EXCEPT ![HotThread] = "none"]
    /\ UNCHANGED <<attached_pid, hot_mounts, guest_log, hotGuest, hotQemu,
                   hotLocals, mount_response, hot_calls>>
    /\ hotFrame

\* ---- the guest and the host around the two handlers
\* The guest kernel announces a disk for an attached device, some time
\* after device_add; a second name may show up in the same window.
guest_disk_appears(n) ==
    /\ n \in HotNames \ guest_disks
    /\ q_device /\ GuestReachable
    /\ guest_disks' = guest_disks \cup {n}
    /\ UNCHANGED <<host_file, hot_mounts, guest_log, hotQemu,
                   hotLocals, hotResp, hot_calls>>
    /\ UNCHANGED <<attached_pid, pc, res, ret>>
    /\ hotFrame

\* The guest kernel drops the disks of a device that was removed.
guest_disk_gone(n) ==
    /\ n \in HotNames \cap guest_disks
    /\ ~q_device /\ GuestReachable
    /\ guest_disks' = guest_disks \ {n}
    /\ UNCHANGED <<host_file, hot_mounts, guest_log, hotQemu,
                   hotLocals, hotResp, hot_calls>>
    /\ UNCHANGED <<attached_pid, pc, res, ret>>
    /\ hotFrame

\* A VM started by this supervisor is or was running; the persistent
\* connection may exist; the host file may exist.  Neither handler was
\* called yet.
HotInit ==
    /\ \E st \in {"up", "dead"} :
          pstate = [p \in Pids |-> IF p = 1 THEN st ELSE "free"]
    /\ current_process = 1
    /\ attached_pid = None
    /\ client \in {None, 1}
    /\ conns = IF client = None THEN {} ELSE {client}
    /\ managed = {1}
    /\ pc = [t \in Threads |-> IF t = RecThread THEN "rc_exit" ELSE "idle"]
    /\ ret = [t \in Threads |-> "idle"]
    /\ proc = [t \in Threads |-> None]
    /\ isrun = [t \in Threads |-> FALSE]
    /\ res = [t \in Threads |-> "none"]
    /\ rc_pid = None
    /\ rc_health = "none"
    /\ rc_conn = "none"
    /\ rc_term = "none"
    /\ rc_result = "none"
    /\ MountIdle /\ SshIdle /\ MonIdle /\ ConIdle
    /\ host_file \in BOOLEAN
    /\ guest_disks = {"fd0", "sda"}
    /\ hot_mounts = {}
    /\ q_drive = FALSE
    /\ q_device = FALSE
    /\ monitor_log = <<>>
    /\ guest_log = <<>>
    /\ before = {}
    /\ polls = 0
    /\ new_disk_name = ""
    /\ partitions = <<>>
    /\ mounts = <<>>
    /\ mount_response = NoResponse
    /\ eject_response = NoResponse
    /\ hot_calls = 0

NextHot ==
    \/ hot_request
    \/ api_core_mount_check
    \/ api_core_mount_path
    \/ api_core_mount_before
    \/ hotplug_drive_check
    \/ hotplug_drive_first
    \/ hotplug_drive_second
    \/ api_core_mount_poll
    \/ api_core_mount_nodisk
    \/ api_core_mount_partitions
    \/ api_core_mount_hot_mount
    \/ api_core_mount_cleanup
    \/ hotunplug_drive_check
    \/ hotunplug_drive_first
    \/ hotunplug_drive_second
    \/ api_core_mount_error
    \/ api_core_eject_check
    \/ api_core_eject_id
    \/ api_core_eject_umount
    \/ api_core_eject_rm
    \/ api_core_eject_ok
    \/ api_core_eject_except
    \/ \E n \in HotNames : guest_disk_appears(n)
    \/ \E n \in HotNames : guest_disk_gone(n)
    \/ \E p \in Pids : ProcExit(p)

SpecHot == HotInit /\ [][NextHot]_vars

\* ===================================================== send_monitor_command
\* QemuManager.send_monitor_command step by step, against a monitor whose
\* answers are drawn from: a chunk without the prompt, a chunk that ends
\* with the prompt, end of stream (recv returns b"") and a timeout.
Prompt == "(qemu)"
Text == "text"
RecvResults == {Text, Prompt, "", "timeout"}

\* "(qemu)" in resp
HasPrompt(r) == \E i \in 1..Len(r) : r[i] = Prompt

monFrame ==
    /\ UNCHANGED <<mntVars, sshVars, conVars>>
    /\ UNCHANGED <<current_process, attached_pid, client, conns, managed, pc,
                   ret, proc, isrun, res>>
    /\ unchangedRec
    /\ UNCHANGED <<host_file, guest_disks, hot_mounts, guest_log,
                   hotLocals, hotResp, hot_calls>>

\* except Exception as e: raise RuntimeError(...); the socket is closed by
\* the with statement.
mon_fail(cause) ==
    /\ mon_result' = monitor_error(cause)
    /\ monitor_log' = Append(monitor_log,
                             [cmd |-> mon_cmd, out |-> monitor_error(cause)])
    /\ mon_pc' = "mc_done"

\* A caller enters send_monitor_command(cmd): a new socket with a timeout
\* of two seconds.
send_monitor_command_enter(cmd) ==
    /\ mon_pc \in {"mc_idle", "mc_done"} /\ mon_calls < MaxMonCalls
    /\ mon_calls' = mon_calls + 1
    /\ mon_cmd' = cmd
    /\ resp' = <<>>
    /\ greeting' = <<>>
    /\ mon_sent' = FALSE
    /\ mon_result' = "none"
    /\ mon_value' = <<>>
    /\ mon_pc' = "mc_connect"
    /\ UNCHANGED hotQemu /\ unchangedOS /\ monFrame

\* s.connect(("127.0.0.1", 4444))
send_monitor_command_connect ==
    /\ mon_pc = "mc_connect"
    /\ \E ok \in BOOLEAN :
          /\ ok => MonitorListening
          /\ IF ok
             THEN /\ mon_pc' = "mc_greeting"
                  /\ UNCHANGED <<mon_result, monitor_log>>
             ELSE mon_fail("connect")
    /\ UNCHANGED <<mon_cmd, resp, greeting, mon_sent, mon_value, mon_calls,
                   q_drive, q_device>>
    /\ unchangedOS /\ monFrame

\* The first loop: while "(qemu)" not in resp: chunk = s.recv(4096);
\* if not chunk: break; resp += chunk
send_monitor_command_greeting ==
    /\ mon_pc = "mc_greeting"
    /\ IF HasPrompt(resp)
       THEN /\ greeting' = resp
            /\ mon_pc' = "mc_send"
            /\ UNCHANGED <<resp, mon_result, monitor_log>>
       ELSE \E chunk \in RecvResults :
               CASE chunk = "timeout" ->
                       /\ mon_fail("timeout")
                       /\ UNCHANGED <<resp, greeting>>
                 [] chunk = "" ->
                       /\ greeting' = resp
                       /\ mon_pc' = "mc_send"
                       /\ UNCHANGED <<resp, mon_result, monitor_log>>
                 [] OTHER ->
                       /\ (chunk = Text) => Len(resp) < MaxChunks
                       /\ resp' = Append(resp, chunk)
                       /\ UNCHANGED <<greeting, mon_pc, mon_result, monitor_log>>
    /\ UNCHANGED <<mon_cmd, mon_sent, mon_value, mon_calls, q_drive, q_device>>
    /\ unchangedOS /\ monFrame

\* s.sendall((cmd + "\n").encode("utf-8")); resp = "".  A monitor that
\* receives the line carries the command out.
send_monitor_command_send ==
    /\ mon_pc = "mc_send"
    /\ \E ok \in BOOLEAN :
          IF ok
          THEN /\ mon_sent' = TRUE
               /\ resp' = <<>>
               /\ mon_pc' = "mc_response"
               /\ q_drive' = IF MonitorListening
                             THEN monitor_effect(mon_cmd)[1] ELSE q_drive
               /\ q_device' = IF MonitorListening
                              THEN monitor_effect(mon_cmd)[2] ELSE q_device
               /\ UNCHANGED <<mon_result, monitor_log>>
          ELSE /\ mon_fail("send")
               /\ UNCHANGED <<mon_sent, resp, q_drive, q_device>>
    /\ UNCHANGED <<mon_cmd, greeting, mon_value, mon_calls>>
    /\ unchangedOS /\ monFrame

\* The second loop, the same as the first, and return resp
send_monitor_command_response ==
    /\ mon_pc = "mc_response"
    /\ IF HasPrompt(resp)
       THEN /\ mon_result' = "ok"
            /\ mon_value' = resp
            /\ monitor_log' = Append(monitor_log, [cmd |-> mon_cmd, out |-> "ok"])
            /\ mon_pc' = "mc_done"
            /\ resp' = resp
       ELSE \E chunk \in RecvResults :
               CASE chunk = "timeout" ->
                       /\ mon_fail("timeout")
                       /\ UNCHANGED <<resp, mon_value>>
                 [] chunk = "" ->
                       /\ mon_result' = "ok"
                       /\ mon_value' = resp
                       /\ monitor_log' = Append(monitor_log,
                                                [cmd |-> mon_cmd, out |-> "ok"])
                       /\ mon_pc' = "mc_done"
                       /\ resp' = resp
                 [] OTHER ->
                       /\ (chunk = Text) => Len(resp) < MaxChunks
                       /\ resp' = Append(resp, chunk)
                       /\ UNCHANGED <<mon_value, mon_pc, mon_result, monitor_log>>
    /\ UNCHANGED <<mon_cmd, greeting, mon_sent, mon_calls, q_drive, q_device>>
    /\ unchangedOS /\ monFrame

\* A running VM, owned or adopted, with or without a persistent connection;
\* a drive may be attached already.
MonInit ==
    /\ pstate = [p \in Pids |-> IF p = 1 THEN "up" ELSE "free"]
    /\ \E owned \in BOOLEAN :
          /\ current_process = IF owned THEN 1 ELSE None
          /\ attached_pid = IF owned THEN None ELSE 1
    /\ client \in {None, 1}
    /\ conns = IF client = None THEN {} ELSE {client}
    /\ managed = {1}
    /\ pc = [t \in Threads |-> IF t = RecThread THEN "rc_exit" ELSE "idle"]
    /\ ret = [t \in Threads |-> "idle"]
    /\ proc = [t \in Threads |-> None]
    /\ isrun = [t \in Threads |-> FALSE]
    /\ res = [t \in Threads |-> "none"]
    /\ rc_pid = None
    /\ rc_health = "none"
    /\ rc_conn = "none"
    /\ rc_term = "none"
    /\ rc_result = "none"
    /\ MountIdle /\ SshIdle /\ MonIdle /\ ConIdle
    /\ host_file = TRUE
    /\ guest_disks = {"fd0", "sda"}
    /\ hot_mounts = {}
    /\ q_drive \in BOOLEAN
    /\ q_device = q_drive
    /\ monitor_log = <<>>
    /\ guest_log = <<>>
    /\ before = {}
    /\ polls = 0
    /\ new_disk_name = ""
    /\ partitions = <<>>
    /\ mounts = <<>>
    /\ mount_response = NoResponse
    /\ eject_response = NoResponse
    /\ hot_calls = 0

NextMon ==
    \/ \E cmd \in MonitorCmds : send_monitor_command_enter(cmd)
    \/ send_monitor_command_connect
    \/ send_monitor_command_greeting
    \/ send_monitor_command_send
    \/ send_monitor_command_response
    \/ \E p \in Pids : ProcExit(p)

SpecMon == MonInit /\ [][NextMon]_vars

\* ============================================================ batch delete
\* api_delete (app.py), served by the two worker threads at the same time.
\* Every call of ssh.execute_command is one step; the commands of the two
\* requests reach the one guest shell in the order of the steps.
SafeTargets == {"/mnt/android/a", "/mnt/android/b"}
UnsafeTarget == "/etc/x"
\* The "paths" lists a request body may carry (repetitions included).
PathLists ==
    UNION {[1..n -> SafeTargets \cup {UnsafeTarget}] : n \in 0..MaxTargets}

\* p.startswith("/mnt/android/")
startswith_mnt_android(p) == p \in SafeTargets

\* for p in paths: if not p.startswith(...): return; the index of the path
\* that is rejected, 0 when all pass.
first_unsafe(ps) ==
    LET bad == {i \in 1..Len(ps) : ~startswith_mnt_android(ps[i])}
    IN  IF bad = {} THEN 0 ELSE CHOOSE i \in bad : \A j \in bad : i <= j

\* How a call of ssh.execute_command ends once a client is there: the guest
\* runs the command and the output is returned, or exec_command raises with
\* the command never run (dead transport).
ExecOutcomes == {"output", "raised"}

\* The command reaches the guest.
delivered(o) == client # None /\ GuestReachable /\ o = "output"

\* What rm -rf p 2>&1 prints.
rm_output(rw) == IF rw THEN "" ELSE "rm: Read-only file system"

\* d[p] = v on a dict held as a function.
dict_set(dict, p, v) ==
    [q \in (DOMAIN dict) \cup {p} |-> IF q = p THEN v ELSE dict[q]]

delFrame ==
    /\ UNCHANGED <<pstate, current_process, client, conns, managed, ret, proc,
                   isrun>>
    /\ unchangedRec
    /\ UNCHANGED <<mntVars, sshVars, hotVars, monVars, pairVars>>

\* POST /api/delete arrives at an idle worker thread.
api_delete_request(t) ==
    /\ t \in Handlers /\ pc[t] = "idle"
    /\ \E ps \in PathLists : paths' = [paths EXCEPT ![t] = ps]
    /\ pc' = [pc EXCEPT ![t] = "dl_check"]
    /\ UNCHANGED <<attached_pid, res, del_i, results, errors, remounted_ro,
                   guest_rw>>
    /\ delFrame

\* if not qemu.is_running / if not paths / the startswith test of every path
api_delete_check(t) ==
    /\ pc[t] = "dl_check"
    /\ attached_pid' = is_running_cleanup
    /\ IF ~is_running
       THEN /\ res' = [res EXCEPT ![t] = "VmNotRunning"]
            /\ pc' = [pc EXCEPT ![t] = "dl_ret"]
       ELSE IF paths[t] = <<>>
       THEN /\ res' = [res EXCEPT ![t] = "MissingPaths"]
            /\ pc' = [pc EXCEPT ![t] = "dl_ret"]
       ELSE IF first_unsafe(paths[t]) # 0
       THEN /\ res' = [res EXCEPT ![t] = "UnsafePath"]
            /\ pc' = [pc EXCEPT ![t] = "dl_ret"]
       ELSE /\ res' = res
            /\ pc' = [pc EXCEPT ![t] = "dl_rw"]
    /\ UNCHANGED <<paths, del_i, results, errors, remounted_ro, guest_rw>>
    /\ delFrame

\* ssh.execute_command("mount -o remount,rw /mnt/android 2>&1 || true"); an
\* exception leaves the try block: _error("Delete operation failed").
api_delete_remount_rw(t) ==
    /\ pc[t] = "dl_rw"
    /\ \E o \in ExecOutcomes :
          IF delivered(o)
          THEN /\ guest_rw' = TRUE
               /\ del_i' = [del_i EXCEPT ![t] = 1]
               /\ pc' = [pc EXCEPT ![t] = "dl_rm"]
               /\ res' = res
          ELSE /\ guest_rw' = guest_rw
               /\ del_i' = del_i
               /\ pc' = [pc EXCEPT ![t] = "dl_ret"]
               /\ res' = [res EXCEPT ![t] = "DeleteFailed"]
    /\ UNCHANGED <<attached_pid, paths, results, errors, remounted_ro>>
    /\ delFrame

\* One turn of the loop: out = ssh.execute_command(f"rm -rf {p!r} 2>&1");
\* results[p] = out or "deleted"; except Exception: errors[p] = str(exc)
api_delete_rm(t) ==
    /\ pc[t] = "dl_rm" /\ del_i[t] <= Len(paths[t])
    /\ LET p == paths[t][del_i[t]]
       IN  \E o \in ExecOutcomes :
              IF delivered(o)
              THEN /\ results' =
                        [results EXCEPT ![t] =
                            dict_set(@, p, IF rm_output(guest_rw) = ""
                                           THEN "deleted"
                                           ELSE rm_output(guest_rw))]
                   /\ errors' = errors
              ELSE /\ errors' =
                        [errors EXCEPT ![t] =
                            dict_set(@, p, IF client = None
                                           THEN "NotConnected"
                                           ELSE "SshError")]
                   /\ results' = results
    /\ del_i' = [del_i EXCEPT ![t] = @ + 1]
    /\ UNCHANGED <<attached_pid, pc, res, paths, remounted_ro, guest_rw>>
    /\ delFrame

\* After the loop: ssh.execute_command("mount -o remount,ro ..."); an
\* exception leaves the try block and the two dicts are not returned.
api_delete_remount_ro(t) ==
    /\ pc[t] = "dl_rm" /\ del_i[t] > Len(paths[t])
    /\ \E o \in ExecOutcomes :
          IF delivered(o)
          THEN /\ guest_rw' = FALSE
               /\ remounted_ro' = [remounted_ro EXCEPT ![t] = TRUE]
               /\ res' = [res EXCEPT ![t] = "ok"]
          ELSE /\ UNCHANGED <<guest_rw, remounted_ro>>
               /\ res' = [res EXCEPT ![t] = "DeleteFailed"]
    /\ pc' = [pc EXCEPT ![t] = "dl_ret"]
    /\ UNCHANGED <<attached_pid, paths, del_i, results, errors>>
    /\ delFrame

\* The response is sent and the locals of the call are gone.
api_delete_return(t) ==
    /\ pc[t] = "dl_ret"
    /\ pc' = [pc EXCEPT ![t] = "idle"]
    /\ res' = [res EXCEPT ![t] = "none"]
    /\ paths' = [paths EXCEPT ![t] = <<>>]
    /\ del_i' = [del_i EXCEPT ![t] = 0]
    /\ results' = [results EXCEPT ![t] = <<>>]
    /\ errors' = [errors EXCEPT ![t] = <<>>]
    /\ remounted_ro' = [remounted_ro EXCEPT ![t] = FALSE]
    /\ UNCHANGED <<attached_pid, guest_rw>>
    /\ delFrame

\* Requests to /api/delete with the VM up or exited and the persistent
\* connection present or absent.
DelInit ==
    /\ pstate \in {[p \in Pids |-> IF p = 1 THEN st ELSE "free"] :
                      st \in {"up", "dead"}}
    /\ current_process = 1
    /\ attached_pid = None
    /\ client \in {None, 1}
    /\ conns = IF client = None THEN {} ELSE {client}
    /\ managed = {1}
    /\ pc = [t \in Threads |-> IF t = RecThread THEN "rc_exit" ELSE "idle"]
    /\ ret = [t \in Threads |-> "idle"]
    /\ proc = [t \in Threads |-> None]
    /\ isrun = [t \in Threads |-> FALSE]
    /\ res = [t \in Threads |-> "none"]
    /\ rc_pid = None
    /\ rc_health = "none"
    /\ rc_conn = "none"
    /\ rc_term = "none"
    /\ rc_result = "none"
    /\ MountIdle /\ SshIdle /\ HotIdle /\ MonIdle /\ ConIdle

DelStep(t) ==
    \/ api_delete_request(t)
    \/ api_delete_check(t)
    \/ api_delete_remount_rw(t)
    \/ api_delete_rm(t)
    \/ api_delete_remount_ro(t)
    \/ api_delete_return(t)

NextDel == \E t \in Handlers : DelStep(t)
SpecDel == DelInit /\ [][NextDel]_vars

\* ===================================================== concurrent attach
\* api_core_mount served by the two worker threads at the same time, in an
\* environment where nothing fails: the VM is up, the session connected, the
\* monitor answers and every host path exists.  Every call of
\* send_monitor_command and of execute_command is one step.
HostPaths == {"A", "B"}

\* drive_id = "drv_" + hashlib.md5(host_path.encode()).hexdigest()[:8]
drive_id(path) == "drv_" \o path

\* The name the guest kernel gives to the next disk: the first letter free.
next_disk_name ==
    sorted_first(HotNames \ guest_disks)

\* f without the key k
dict_del(f, k) == [q \in (DOMAIN f) \ {k} |-> f[q]]

pairFrame ==
    /\ UNCHANGED <<pstate, current_process, attached_pid, client, conns,
                   managed, ret, proc, isrun>>
    /\ unchangedRec
    /\ UNCHANGED <<mntVars, sshVars, monVars, delVars>>
    /\ UNCHANGED <<host_file, hot_mounts, guest_log, hotQemu, hotLocals,
                   hotResp, hot_calls>>

\* POST /api/core/mount arrives at an idle worker thread; is_running holds
\* and the path exists.
pair_mount_request(t) ==
    /\ t \in Handlers /\ pc[t] = "idle"
    /\ \E path \in HostPaths : host_path' = [host_path EXCEPT ![t] = path]
    /\ pc' = [pc EXCEPT ![t] = "pm_before"]
    /\ UNCHANGED <<res, guest_disks, c_before, c_polls, c_new_disk_name,
                   drives, device_by, backing>>
    /\ pairFrame

\* before = list_real_disks()
pair_mount_before(t) ==
    /\ pc[t] = "pm_before"
    /\ c_before' = [c_before EXCEPT ![t] = list_real_disks]
    /\ pc' = [pc EXCEPT ![t] = "pm_drive_add"]
    /\ UNCHANGED <<res, guest_disks, host_path, c_polls, c_new_disk_name,
                   drives, device_by, backing>>
    /\ pairFrame

\* hotplug_drive: send_monitor_command(drive_add ... id=drive_id).  QEMU
\* answers a duplicate id with an error text, which is only logged.
pair_drive_add(t) ==
    /\ pc[t] = "pm_drive_add"
    /\ drives' = drives \cup {drive_id(host_path[t])}
    /\ pc' = [pc EXCEPT ![t] = "pm_device_add"]
    /\ UNCHANGED <<res, guest_disks, host_path, c_before, c_polls,
                   c_new_disk_name, device_by, backing>>
    /\ pairFrame

\* hotplug_drive: send_monitor_command(device_add scsi-hd,drive=drive_id,
\* id=dev_drive_id).  The device is made when the drive exists and no device
\* has the id; otherwise the error text is only logged.
pair_device_add(t) ==
    /\ pc[t] = "pm_device_add"
    /\ LET id == drive_id(host_path[t])
       IN  device_by' = IF id \in drives /\ id \notin DOMAIN device_by
                        THEN dict_set(device_by, id, t)
                        ELSE device_by
    /\ pc' = [pc EXCEPT ![t] = "pm_poll"]
    /\ UNCHANGED <<res, guest_disks, host_path, c_before, c_polls,
                   c_new_disk_name, drives, backing>>
    /\ pairFrame

\* One turn of for _ in range(6): after = list_real_disks(); new = after -
\* before; if new: new_disk_name = sorted(new)[0]; break.  After the loop
\* without a name: raise RuntimeError (DiskNotDetected).
pair_mount_poll(t) ==
    /\ pc[t] = "pm_poll"
    /\ c_polls' = [c_polls EXCEPT ![t] = @ + 1]
    /\ LET new == list_real_disks \ c_before[t]
       IN  IF new # {}
           THEN /\ c_new_disk_name' =
                       [c_new_disk_name EXCEPT ![t] = sorted_first(new)]
                /\ pc' = [pc EXCEPT ![t] = "pm_hot_mount"]
                /\ res' = res
           ELSE /\ c_new_disk_name' = c_new_disk_name
                /\ IF c_polls'[t] = PollAttempts
                   THEN /\ pc' = [pc EXCEPT ![t] = "pm_umount"]
                        /\ res' = [res EXCEPT ![t] = DiskNotDetected]
                   ELSE UNCHANGED <<pc, res>>
    /\ UNCHANGED <<guest_disks, host_path, c_before, drives, device_by,
                   backing>>
    /\ pairFrame

\* list_partitions(new_disk_name), then ssh.hot_mount(...) raises.
pair_mount_hot_mount(t) ==
    /\ pc[t] = "pm_hot_mount"
    /\ hot_mount = "AttributeError"
    /\ res' = [res EXCEPT ![t] = hot_mount]
    /\ pc' = [pc EXCEPT ![t] = "pm_umount"]
    /\ UNCHANGED <<guest_disks, host_path, c_before, c_polls, c_new_disk_name,
                   drives, device_by, backing>>
    /\ pairFrame

\* except: ssh.execute_command(f"umount -R {base_mount} ... || true");
\* nothing was mounted under base_mount.
pair_mount_umount(t) ==
    /\ pc[t] = "pm_umount"
    /\ pc' = [pc EXCEPT ![t] = "pm_device_del"]
    /\ UNCHANGED <<res, guest_disks, host_path, c_before, c_polls,
                   c_new_disk_name, drives, device_by, backing>>
    /\ pairFrame

\* hotunplug_drive: send_monitor_command(f"device_del dev_{drive_id}"); the
\* device of that id is removed and the guest loses its disk.
pair_device_del(t) ==
    /\ pc[t] = "pm_device_del"
    /\ LET id == drive_id(host_path[t])
           gone == {n \in DOMAIN backing : backing[n] = id}
       IN  IF id \in DOMAIN device_by
           THEN /\ device_by' = dict_del(device_by, id)
                /\ guest_disks' = guest_disks \ gone
                /\ backing' = [n \in (DOMAIN backing) \ gone |-> backing[n]]
           ELSE UNCHANGED <<device_by, guest_disks, backing>>
    /\ pc' = [pc EXCEPT ![t] = "pm_drive_del"]
    /\ UNCHANGED <<res, host_path, c_before, c_polls, c_new_disk_name,
                   drives>>
    /\ pairFrame

\* hotunplug_drive: send_monitor_command(f"drive_del {drive_id}"), then
\* return _error(f"Mount failed: {exc}", 500); the locals are gone.
pair_drive_del(t) ==
    /\ pc[t] = "pm_drive_del"
    /\ drives' = drives \ {drive_id(host_path[t])}
    /\ pc' = [pc EXCEPT ![t] = "idle"]
    /\ res' = [res EXCEPT ![t] = "none"]
    /\ host_path' = [host_path EXCEPT ![t] = ""]
    /\ c_before' = [c_before EXCEPT ![t] = {}]
    /\ c_polls' = [c_polls EXCEPT ![t] = 0]
    /\ c_new_disk_name' = [c_new_disk_name EXCEPT ![t] = ""]
    /\ UNCHANGED <<guest_disks, device_by, backing>>
    /\ pairFrame

\* The guest kernel announces the disk of an attached device, some time
\* after device_add.
pair_disk_appears(id) ==
    /\ id \in DOMAIN device_by
    /\ \A n \in DOMAIN backing : backing[n] # id
    /\ HotNames \ guest_disks # {}
    /\ guest_disks' = guest_disks \cup {next_disk_name}
    /\ backing' = dict_set(backing, next_disk_name, id)
    /\ UNCHANGED <<pc, res, host_path, c_before, c_polls, c_new_disk_name,
                   drives, device_by>>
    /\ pairFrame

PairInit ==
    /\ pstate = [p \in Pids |-> IF p = 1 THEN "up" ELSE "free"]
    /\ current_process = 1
    /\ attached_pid = None
    /\ client = 1
    /\ conns = {1}
    /\ managed = {1}
    /\ pc = [t \in Threads |-> IF t = RecThread THEN "rc_exit" ELSE "idle"]
    /\ ret = [t \in Threads |-> "idle"]
    /\ proc = [t \in Threads |-> None]
    /\ isrun = [t \in Threads |-> FALSE]
    /\ res = [t \in Threads |-> "none"]
    /\ rc_pid = None
    /\ rc_health = "none"
    /\ rc_conn = "none"
    /\ rc_term = "none"
    /\ rc_result = "none"
    /\ MountIdle /\ SshIdle /\ HotIdle /\ MonIdle /\ ConIdle

PairStep(t) ==
    \/ pair_mount_request(t)
    \/ pair_mount_before(t)
    \/ pair_drive_add(t)
    \/ pair_device_add(t)
    \/ pair_mount_poll(t)
    \/ pair_mount_hot_mount(t)
    \/ pair_mount_umount(t)
    \/ pair_device_del(t)
    \/ pair_drive_del(t)

NextPair ==
    \/ \E t \in Handlers : PairStep(t)
    \/ \E path \in HostPaths : pair_disk_appears(drive_id(path))
SpecPair == PairInit /\ [][NextPair]_vars

\* ================================================================ claims
StopPcs == {"sp_check", "sp_oterm", "sp_owait", "sp_okill", "sp_owait2",
            "sp_ofin", "sp_aterm", "sp_await", "sp_akill", "sp_await2",
            "sp_afin"}
InStop(t) == pc[t] \in StopPcs
\* The step with which stop_service returns to its caller.
StopReturns(t) == pc[t] \in StopPcs /\ pc'[t] \notin StopPcs
\* The step with which reconnect_session returns.
RecReturns == pc[RecThread] # "rc_done" /\ pc'[RecThread] = "rc_done"

\* The supervised VM is running: the owned handle is alive, or the adopted
\* pid is in the process table.
VmRunning == Alive(current_process) \/ pid_exists(attached_pid)

\* C1: a call of start_service made while the supervised VM is running ends
\* with AlreadyRunning, spawns nothing, and leaves the owned handle, the
\* adopted pid and the process table as they were.
C1_StartRejectedWhileRunning ==
    [][\A t \in Threads :
          (pc[t] = "st_check" /\ pc'[t] # "st_check" /\ VmRunning)
          => /\ res'[t] = "AlreadyRunning"
             /\ pc'[t] = "cs_ret"
             /\ pstate' = pstate
             /\ current_process' = current_process
             /\ attached_pid' = attached_pid
             /\ managed' = managed]_vars

\* A start_service call was rejected with AlreadyRunning while a VM runs.
C1_Witness ==
    \E t \in Handlers :
        pc[t] = "cs_ret" /\ res[t] = "AlreadyRunning" /\ VmRunning

\* C2: at most one VM process spawned or adopted by the supervisor is alive,
\* in every state reachable under any interleaving of the calls.
C2_AtMostOneManagedAlive ==
    Cardinality({p \in managed : Alive(p)}) <= 1

\* C3: whenever stop_service returns, the owned handle and the adopted pid
\* are both absent (so is_running is false).
C3_StopClearsState ==
    [][\A t \in Threads :
          StopReturns(t)
          => current_process' = None /\ attached_pid' = None]_vars

\* C4: stop_service called with nothing running raises nothing, terminates
\* no process and leaves both fields absent; and the state in which any
\* stop_service call returns is one that a second call right after would
\* leave as it is (nothing running, both fields absent).
C4_StopIdempotent ==
    [][\A t \in Threads :
          /\ (pc[t] = "sp_check" /\ pc'[t] # "sp_check" /\ ~VmRunning)
             => /\ pc'[t] = ret[t]
                /\ pstate' = pstate
                /\ current_process' = None /\ attached_pid' = None
          /\ StopReturns(t)
             => /\ ~(current_process' # None /\ pstate'[current_process'] \in {"boot", "up"})
                /\ current_process' = None /\ attached_pid' = None]_vars

\* C5: the owned handle and the adopted pid are never both set.
C5_HandleXorAdopted ==
    ~(current_process # None /\ attached_pid # None)

\* C6: a read of is_running gives true exactly when the owned handle is
\* alive or the adopted pid exists in the process table, and a read made
\* when the adopted pid no longer exists clears the adopted pid.
C6_IsRunningIff ==
    [][\A t \in Threads :
          (pc[t] = "hl_read" /\ pc'[t] = "hl_ret")
          => /\ isrun'[t] = (Alive(current_process) \/ pid_exists(attached_pid))
             /\ (attached_pid # None /\ ~pid_exists(attached_pid))
                => attached_pid' = None]_vars

C8_RecoverTrue ==
    [][/\ RecReturns
          => /\ rc_result' \in {"true", "false"}
             /\ (rc_result' = "true")
                <=> (rc_pid' # None /\ rc_health' = "true" /\ rc_conn' = "ok")
             /\ (rc_result' = "true")
                => /\ client' # None /\ client' \in conns'
                   /\ attached_pid' = rc_pid'
                   /\ rc_term' = "none"
       /\ (pc'[RecThread] # pc[RecThread])
          => UNCHANGED <<g_mnt, cmds, tried, mpc, is_android_mounted>>]_vars

\* reconnect_session returned True.
C8_Witness ==
    pc[RecThread] = "rc_done" /\ rc_result = "true" /\ attached_pid = rc_pid

\* C9: when reconnect_session found a process and the probe failed, the
\* process is terminated, not adopted, and False is returned; no found
\* process is alive and unadopted when reconnect_session returns.
C9_RecoverKillsUnhealthy ==
    [][RecReturns
       => /\ (rc_pid' # None /\ rc_health' = "false")
             => /\ rc_result' = "false"
                /\ attached_pid' # rc_pid'
                /\ pstate'[rc_pid'] = "dead"
          /\ (rc_pid' # None /\ attached_pid' # rc_pid')
             => pstate'[rc_pid'] = "dead"]_vars

RECURSIVE Dedup(_)
\* seq without the later occurrences of an element
Dedup(seq) ==
    IF seq = <<>> THEN <<>>
    ELSE LET front == Dedup(SubSeq(seq, 1, Len(seq) - 1))
             last == seq[Len(seq)]
         IN  IF \E i \in 1..Len(front) : front[i] = last THEN front
             ELSE Append(front, last)

IsPrefix(a, b) == Len(a) <= Len(b) /\ SubSeq(b, 1, Len(a)) = a

\* The primary-heuristic device: the target kind is the known product and the
\* device node is present on the guest (and the probe was answered).
ClaimPrimary ==
    IF emulator_type = "LDPLAYER" /\ g_vdb2 /\ probe_check # "raised"
    THEN <<"/dev/vdb2">> ELSE <<>>
\* The largest partition the enumeration can find on this guest.
ClaimLargest ==
    IF best_part(g_rows) # "" THEN <<dev_path(best_part(g_rows))>> ELSE <<>>
\* The orders the documented sequence allows: primary, then the largest
\* partition when the fallback heuristic found one, then the static list.
ClaimOrders ==
    IF ClaimPrimary # <<>>
    THEN {Dedup(ClaimPrimary \o DRIVE1_CANDIDATES),
          Dedup(ClaimPrimary \o ClaimLargest \o DRIVE1_CANDIDATES)}
    ELSE {Dedup(ClaimLargest \o DRIVE1_CANDIDATES), DRIVE1_CANDIDATES}

\* C10: mount_target issues its mount attempts in the documented order
\* (primary-heuristic device when the target kind is LDPLAYER and /dev/vdb2
\* is present, then the largest partition, then the static list), and the
\* device it returns is the last one attempted, with the mount point
\* verified.
C10_MountOrder ==
    /\ \E o \in ClaimOrders : IsPrefix(tried, o)
    /\ (mpc = "m_done" /\ mresult \notin {"none", "NotConnected", "MountFailed"})
       => /\ tried # <<>>
          /\ mresult = tried[Len(tried)]
          /\ g_mnt # NoDev

\* The step of mount_target in which a candidate verified and is returned.
MountReturns == mpc = "m_try" /\ mpc' = "m_done" /\ mresult' # "MountFailed"

C12_PrimarySkipsFallback ==
    (/\ emulator_type = "LDPLAYER" /\ g_vdb2
     /\ probe_check \notin {"", "raised"}
     /\ mpc \in {"m_try", "m_done"})
    => /\ candidates # <<>> /\ candidates[1] = "/dev/vdb2"
       /\ ~Contains(cmds, "lsblk")
       /\ (tried # <<>> => tried[1] = "/dev/vdb2")

\* Names of the rows of type part whose size parses and is the greatest.
LargestParts(rows) ==
    LET ok == {i \in 1..Len(rows) : rows[i].type = "part" /\ rows[i].parses}
    IN  {rows[i].name : i \in {k \in ok : \A j \in ok : rows[j].size <= rows[k].size}}

NoDuplicates(seq) ==
    \A i, j \in 1..Len(seq) : seq[i] = seq[j] => i = j

HcPcs == {"hc_start", "hc_connect", "hc_exec", "hc_finally"}
\* A step of check_health.
HealthStep == pc[RecThread] \in HcPcs /\ pc'[RecThread] # pc[RecThread]

\* C16: when check_health has returned, on whichever path (sentinel
\* matched or not, connect failure, authentication failure, command
\* timeout), the probe connection it opened is closed; the probe is open
\* only inside the call.
C16_ProbeClosedOnReturn ==
    /\ (pc[RecThread] = "hc_done") => (probe = "closed")
    /\ (probe = "open") => (pc[RecThread] \in {"hc_exec", "hc_finally"})

\* check_health returned after the probe's command timed out.
C16_Witness ==
    pc[RecThread] = "hc_done" /\ hc_path = "timeout" /\ probe = "closed"

\* C17: no step of check_health changes the persistent connection
\* (self._client and the connections made by connect), the target kind or
\* is_android_mounted, also while other threads are inside connect, close
\* or execute_command.
C17_HealthLeavesSessionAlone ==
    [][HealthStep
       => /\ client' = client /\ conns' = conns
          /\ emulator_type' = emulator_type
          /\ is_android_mounted' = is_android_mounted]_vars

\* check_health returned while a persistent connection exists and another
\* thread is in the middle of execute_command.
C17_Witness ==
    /\ pc[RecThread] = "hc_done" /\ client # None
    /\ \E t \in Handlers : pc[t] = "ex_send"

\* C18: execute_command called while there is no persistent client raises
\* NotConnected, sends no command and leaves the session as it is.
C18_ExecuteNotConnected ==
    [][\A t \in Handlers :
          (pc[t] = "ex_check" /\ pc'[t] # "ex_check" /\ client = None)
          => /\ res'[t] = "NotConnected"
             /\ pc'[t] = "ss_ret"
             /\ cmds' = cmds
             /\ client' = None /\ conns' = conns]_vars

\* NotConnected was raised after a connection had been used and closed.
C18_Witness ==
    \E t \in Handlers :
        /\ pc[t] = "ss_ret" /\ res[t] = "NotConnected"
        /\ client = None /\ conns = {} /\ cmds # <<>>

\* C19: wait_for_connection ends either by returning, with the persistent
\* connection present (the handler then answers "running"), or with
\* Timeout (the handler answers "SshTimeout"); nothing else reaches the
\* caller.
C19_WaitReturnsOrTimesOut ==
    [][\A t \in Handlers :
          (pc[t] = "cs_wait" /\ pc'[t] # "cs_wait")
          => \/ res'[t] = "running" /\ client' # None
             \/ res'[t] = "SshTimeout"]_vars

\* C20: of the api_apps callers that found the persistent connection
\* absent, at most one is inside connect() at any time.
C20_OneConnectAttempt ==
    Cardinality({t \in Handlers :
                    pc[t] = "cn_connecting" /\ ret[t] = "ex_check"}) <= 1

\* ---------------------------------------------------- hotplug coordinator
\* The step with which the serving thread leaves position l.
HotLeaves(l) == pc[HotThread] = l /\ pc'[HotThread] # l
\* The monitor log of the current request ends with the detach pair.
DetachPairIssued ==
    LET n == Len(monitor_log)
    IN  /\ n >= 2
        /\ monitor_log[n - 1].cmd = "device_del"
        /\ monitor_log[n].cmd = "drive_del"
\* The current request enumerated the partitions of the discovered disk.
MountStageReached ==
    \E i \in 1..Len(guest_log) :
        guest_log[i].cmd = "lsblk_parts" /\ guest_log[i].out = "ok"
\* Failures of attach that are caused by its environment.
EnvFailures == {SshError, CannotHotplug, monitor_error("any"), DiskNotDetected}
NoMountableVolumes == "No partitions could be mounted"
ControlChannelError == "Failed to communicate with QEMU monitor"

\* C21: attach answers VmNotRunning when no VM is running and InvalidPath
\* when the host file does not exist, and the two checks leave the guest,
\* the monitor, the attached devices and the mounts untouched: no guest
\* command and no monitor command precedes either answer.
C21_AttachFailsEarly ==
    [][/\ (HotLeaves("hm_check") \/ HotLeaves("hm_path"))
          => /\ guest_log = <<>> /\ monitor_log = <<>>
             /\ UNCHANGED <<guest_log, monitor_log, q_drive, q_device,
                            hot_mounts>>
       /\ (HotLeaves("hm_check") /\ ~VmRunning)
          => /\ mount_response' = [code |-> 400, msg |-> VmNotRunning]
             /\ pc'[HotThread] = "idle"
       /\ (HotLeaves("hm_path") /\ ~host_file)
          => /\ mount_response' = [code |-> 400, msg |-> InvalidPath]
             /\ pc'[HotThread] = "idle"]_vars

\* attach answered InvalidPath with a VM running and nothing was issued.
C21_Witness ==
    /\ pc[HotThread] = "idle" /\ VmRunning
    /\ mount_response = [code |-> 400, msg |-> InvalidPath]
    /\ eject_response = NoResponse
    /\ guest_log = <<>> /\ monitor_log = <<>> /\ ~q_drive /\ ~q_device

\* C22: the polling loop is entered after the attach commands with no name
\* found, makes at most PollAttempts turns, and a turn is made only while
\* no new name was seen; the first turn that reads a non-empty after -
\* before takes the lexicographically first name of it and leaves the loop.
C22_PollUntilFirstNewDisk ==
    [][/\ (pc[HotThread] # "hm_poll" /\ pc'[HotThread] = "hm_poll")
          => /\ pc[HotThread] = "hp_second"
             /\ polls = 0 /\ new_disk_name = ""
       /\ (pc[HotThread] = "hm_poll" /\ polls' # polls)
          => /\ polls' = polls + 1 /\ polls' <= PollAttempts
             /\ new_disk_name = ""
             /\ LET new == list_real_disks \ before
                    read == guest_log'[Len(guest_log')].out = "ok"
                IN  /\ (read /\ new # {})
                       => /\ new_disk_name' \in new
                          /\ \A m \in new : rank(new_disk_name') <= rank(m)
                          /\ pc'[HotThread] = "hm_parts"
                    /\ (read /\ new = {})
                       => /\ new_disk_name' = ""
                          /\ pc'[HotThread] = "hm_poll"]_vars

\* The last of the six turns found two new names and took the first.
C22_Witness ==
    /\ pc[HotThread] = "hm_parts"
    /\ polls = PollAttempts
    /\ new_disk_name = "sdb"
    /\ {"sdb", "sdc"} \subseteq (list_real_disks \ before)

\* C23: when attach answers DiskNotDetected (the VM still running), nothing
\* is mounted under the mount root and the detach pair, device_del then
\* drive_del, has been issued.
C23_DiskNotDetectedCleansUp ==
    (pc[HotThread] = "hm_error" /\ res[HotThread] = DiskNotDetected /\ VmRunning)
    => (hot_mounts = {} /\ DetachPairIssued)

\* C24: when the discovered disk has several partitions, attach has an
\* entry in mounts for every one of them when it answers.
C24_EveryPartitionAttempted ==
    (pc[HotThread] = "hm_error" /\ MountStageReached /\ Len(partitions) >= 2)
    => Len(mounts) = Len(partitions)

\* C25: when attach got as far as mounting and nothing was mounted, its
\* error is NoMountableVolumes, the umount of the mount root was attempted
\* and, the VM still running, the detach pair was issued.
C25_NoMountableVolumes ==
    (/\ pc[HotThread] = "hm_error" /\ MountStageReached
     /\ \A i \in 1..Len(mounts) : ~mounts[i].mounted)
    => /\ res[HotThread] = NoMountableVolumes
       /\ \E i \in 1..Len(guest_log) : guest_log[i].cmd = "umount"
       /\ VmRunning => DetachPairIssued

\* C26: an attach that its environment did not defeat has succeeded, and
\* when the eject that follows it answers, nothing is mounted under the
\* mount root and the device is detached.
C26_AttachThenEject ==
    (/\ pc[HotThread] \in {"he_ok", "he_except"}
     /\ mount_response.code \notin {0, 400}
     /\ mount_response.msg \notin EnvFailures)
    => /\ mount_response.code = 200
       /\ hot_mounts = {}
       /\ ~q_device

\* C27: in eject, the unmount is followed by the removal of the mount root,
\* that by the detach, and device_del by drive_del, whether the step failed
\* or not; eject never answers with a failure of one of them.
C27_EjectBestEffort ==
    [][/\ HotLeaves("he_umount") => pc'[HotThread] = "he_rm"
       /\ HotLeaves("he_rm") => pc'[HotThread] = "hu_check"
       /\ (HotLeaves("hu_first") /\ ret[HotThread] = "he_ok")
          => pc'[HotThread] = "hu_second"
       /\ pc'[HotThread] # "he_except"]_vars

\* C28: in the monitor log, device_add comes right after a drive_add whose
\* call returned, and drive_del right after a device_del.
C28_MonitorCommandOrder ==
    \A i \in 1..Len(monitor_log) :
        /\ monitor_log[i].cmd = "device_add"
           => /\ i > 1
              /\ monitor_log[i - 1] = [cmd |-> "drive_add", out |-> "ok"]
        /\ monitor_log[i].cmd = "drive_del"
           => /\ i > 1
              /\ monitor_log[i - 1].cmd = "device_del"
        /\ monitor_log[i].cmd = "drive_add"
           => (i > 1 => monitor_log[i - 1].cmd # "device_add")
        /\ monitor_log[i].cmd = "device_del"
           => (i > 1 => monitor_log[i - 1].cmd # "drive_del")

\* One request issued both pairs, every call returning.
C28_Witness ==
    monitor_log = <<[cmd |-> "drive_add", out |-> "ok"],
                    [cmd |-> "device_add", out |-> "ok"],
                    [cmd |-> "device_del", out |-> "ok"],
                    [cmd |-> "drive_del", out |-> "ok"]>>

\* ------------------------------------------------- send_monitor_command
\* C29: the command is written only after the greeting prompt was read,
\* and the value returned is what the second phase read without the
\* prompt.
C29_ProtocolSequence ==
    /\ mon_sent => HasPrompt(greeting)
    /\ (mon_result = "ok") => ~HasPrompt(mon_value)

\* C30: a call that ends with a failed connect or with a timeout in a read
\* phase ends with ControlChannelError, and leaves the owned handle, the
\* adopted pid and the persistent connection as they were; a caller may
\* enter the next call.
C30_FailureIsRecoverable ==
    [][(/\ mon_pc \in {"mc_connect", "mc_greeting", "mc_response"}
        /\ mon_pc' = "mc_done" /\ mon_result' # "ok")
       => /\ mon_result' = ControlChannelError
          /\ UNCHANGED <<current_process, attached_pid, client, conns>>
          /\ monitor_log'[Len(monitor_log')].out = ControlChannelError]_vars

\* A call failed and the call after it returned.
C30_Witness ==
    /\ Len(monitor_log) >= 2
    /\ monitor_log[1].out = ControlChannelError
    /\ monitor_log[2].out = "ok"
    /\ mon_result = "ok"
    /\ current_process # None \/ attached_pid # None

\* The precondition failures of start_service.
StartFailures == {"AlreadyRunning", "PortConflict", "MissingAsset"}

\* C31: start_service tests is_running first, then the port, then the two
\* files, and answers with the first test that fails: a running VM gives
\* AlreadyRunning, a bound port gives PortConflict whatever is on disk, and
\* MissingAsset is given only with the port free. The failing step spawns
\* nothing, leaves the owned handle as it was (not a live process, for the
\* last two), and hands the failure to the caller without another attempt.
C31_StartPreconditionOrder ==
    [][\A t \in Threads :
          (pc[t] \in {"st_check", "st_pre"} /\ pc'[t] # pc[t])
          => /\ (pc[t] = "st_check" /\ is_running)
                    => res'[t] = "AlreadyRunning"
             /\ (pc[t] = "st_pre" /\ PortBound) => res'[t] = "PortConflict"
             /\ res'[t] = "MissingAsset" => ~PortBound
             /\ pc'[t] = "st_spawn" => ~PortBound
             /\ res'[t] \in StartFailures
                    => /\ pc'[t] = "cs_ret"
                       /\ pstate' = pstate
                       /\ managed' = managed
                       /\ current_process' = current_process
                       /\ res'[t] # "AlreadyRunning"
                              => ~Alive(current_process')]_vars

\* start_service answered PortConflict because a VM that the supervisor does
\* not hold is bound to the port.
C31_Witness ==
    \E t \in Handlers :
        /\ pc[t] = "cs_ret" /\ res[t] = "PortConflict"
        /\ PortBound /\ ~VmRunning

\* A VM that the supervisor spawned or holds is alive.
SupervisedAlive ==
    \/ VmRunning
    \/ \E p \in managed : Alive(p)

\* C35: api_core_start returns either with success, the VM running and the
\* persistent connection present, or with an error and no VM that the
\* supervisor spawned or holds alive; and it spawns only when the VM that
\* was running at the call has been stopped and its session closed.
C35_StartLeavesNoHalfStartedVm ==
    [][\A t \in Handlers :
          /\ (pc[t] # "cs_ret" /\ pc'[t] = "cs_ret")
                => IF res'[t] = "running"
                   THEN VmRunning' /\ client' # None
                   ELSE ~SupervisedAlive'
          /\ (pc[t] = "st_spawn" /\ pc'[t] = "cs_wait")
                => ~SupervisedAlive /\ client = None]_vars

\* C36: reconnect_session never sends terminate() or kill() to the process
\* that the supervisor holds as its owned handle, and never adopts the pid
\* of the owned handle.
C36_RecoverSparesOwnedVm ==
    [][/\ (/\ pc[RecThread] \in {"rc_term", "rc_kill"}
           /\ pc'[RecThread] # pc[RecThread]
           /\ Alive(rc_pid))
          => rc_pid # current_process
       /\ (pc[RecThread] = "rc_attach" /\ pc'[RecThread] = "rc_done")
          => rc_pid # current_process]_vars

\* C38: once mount_target has ended, is_android_mounted is true only with a
\* device mounted at the mount point and a marker directory found on it,
\* and it is false when the call ended with MountFailed.
C38_MountedFlagIsCurrent ==
    mpc = "m_done"
    => /\ is_android_mounted => (g_mnt # NoDev /\ g_marker # "none")
       /\ mresult = "MountFailed" => ~is_android_mounted

\* C39: the device mount_target returns is the device mounted at the mount
\* point, also when the umount at the start of the call left an earlier
\* mount in place.
C39_ReturnedDeviceIsMounted ==
    (mpc = "m_done" /\ mresult \notin {"none", "NotConnected", "MountFailed"})
    => g_mnt = mresult

\* C37: every connection that connect() has made and that is still open is
\* the persistent connection: at most one is open, and connect() does not
\* put a new client in place of an open one that it leaves open.
C37_OnePersistentConnection ==
    /\ Cardinality(conns) <= 1
    /\ conns \subseteq {client}

\* The step of thread t in which the guest runs the rm of its current
\* target.
RmRuns(t) ==
    /\ pc[t] = "dl_rm" /\ del_i[t] <= Len(paths[t])
    /\ del_i'[t] = del_i[t] + 1
    /\ results'[t] # results[t]

\* C33: the guest runs the rm of a request only while /mnt/android is
\* read-write as that request's remount,rw left it: never after the
\* remount,ro of another request.
C33_DeleteSequencesSerialized ==
    [][\A t \in Handlers : RmRuns(t) => guest_rw]_vars

\* The targets of the list.
Range(ps) == {ps[i] : i \in 1..Len(ps)}

\* C34: a call of api_delete whose first remount did not raise returns with
\* every target attempted, every target in exactly one of results and
\* errors, and its remount,ro run by the guest.
C34_BatchDeleteBestEffort ==
    \A t \in Handlers :
        (pc[t] = "dl_ret" /\ del_i[t] > 0)
        => /\ del_i[t] = Len(paths[t]) + 1
           /\ \A p \in Range(paths[t]) :
                 (p \in DOMAIN results[t]) # (p \in DOMAIN errors[t])
           /\ remounted_ro[t]

\* C32: a device made for one call of attach is removed only by that call:
\* the steps of another call for the same host path, on its way to success
\* or to failure, leave the device in place.
C32_SecondAttachLeavesFirst ==
    [][\A u \in Handlers : \A id \in DOMAIN device_by :
          (pc'[u] # pc[u] /\ id \notin DOMAIN device_by')
          => device_by[id] = u]_vars

\* C40: the guest disk a call of attach has selected is backed by the image
\* of that call, and two calls for different host paths never hold the
\* same name.
C40_DiscoveredDiskIsOwn ==
    /\ \A t \in Handlers :
          (c_new_disk_name[t] # "" /\ c_new_disk_name[t] \in DOMAIN backing)
          => backing[c_new_disk_name[t]] = drive_id(host_path[t])
    /\ \A t, u \in Handlers :
          (/\ t # u /\ host_path[t] # host_path[u]
           /\ c_new_disk_name[t] # "")
          => c_new_disk_name[t] # c_new_disk_name[u]

====
